---------------------------- MODULE Spec2Model ----------------------------
(***************************************************************************)
(* State-machine model of the city driving game                            *)
(*   src/src/components/Game.tsx   (the driving game; collisions bounce)   *)
(*   src/unnamed/part_000          (earlier variant; collisions are final) *)
(*                                                                         *)
(* Numbers.  The code computes in IEEE doubles; the model computes in      *)
(* fixed point.  Speeds, lengths and coordinates are integers counting     *)
(* thousandths (speed 1800 is 1.8, coordinate 30000 is 30), headings are   *)
(* thousandths of a radian, and the frame time delta is counted in ticks   *)
(* of 1/60 s (delta 6 is the 0.1 s cap of animate).  Products are divided  *)
(* back with truncation toward zero, so a result can differ from the       *)
(* double by less than one thousandth.                                     *)
(*                                                                         *)
(* Not modelled: rendering (scene graph, materials, the camera's pose,     *)
(* what the minimap shows beyond its size, scale and marker), colours,     *)
(* and the inside of the peer-to-peer library: a peer                      *)
(* and its connections are what the component sees of them (open, data,    *)
(* close and error events, the `open` flag, send).                         *)
(***************************************************************************)
EXTENDS Integers, Sequences, FiniteSets, TLC

VARIABLES
  handles,               \* the refs that are non-null: subset of Handles
  mounted,               \* the mount effect ran and its cleanup did not: animate is scheduled
  gameRunningRef,        \* gameRunningRef.current: isStarted, isGameOver, score, speed, rotation
  gameState,             \* React state: score, isGameOver, isStarted, highScore, speed
  currentZone,           \* React state currentZone
  localStorage,          \* item 'urban_drive_highscore': <<>> when absent, <<n>> when it holds n
  car,                   \* carRef.current.position (x, y, z) and rotation.y (rotY)
  keysRef,               \* keysRef.current: the set of key codes whose flag is true
  buildingsDataRef,      \* generated entity collections, in push order
  windowsDataRef,
  barriersDataRef,
  treesDataRef,
  propsDataRef,
  cloudsDataRef,
  trafficLightsDataRef,
  pc,                    \* position inside animate: "idle" (between frames) or "collide"
                         \* (updateCar returned, checkCollisions is next)
  frameDelta,            \* animate's local `delta` while a frame runs its physics, in
                         \* ticks; 0 between frames
  frames,                \* physics frames run since the session started, counted up to
                         \* MaxFrames (model counter)
  lastCollision,         \* what the last checkCollisions call did: the number of responses
                         \* it applied and the index of the building it responded to
                         \* first (observation only, never read back)
  initialItem,           \* the storage item the first render read the high score from
                         \* (observation only, never read back)
  peerRef,               \* peerRef.current: "null", "live" (new Peer()) or "destroyed"
  connRef,               \* connRef.current: NoConn or the connection last stored
  conns,                 \* the DataConnection objects the component was handed, by
                         \* <<peer id, direction>>: state, and whether setupConnection
                         \* registered its data and close handlers
  multiplayer,           \* gameState.multiplayer
  remotePlayersRef,      \* remotePlayersRef.current: peer id -> mesh pose and target pose
  sent,                  \* the messages the latest frame passed to connRef.current.send
                         \* (observation only, never read back)
  listeners,             \* the window events the component has a listener on
  acquired,              \* "canvas" (appended to the container) and "renderer" (created,
                         \* not disposed)
  netEvent,              \* the handler that ran last among the effect, its cleanup, the
                         \* frame and the peer session's callbacks (observation only)
  draws,                 \* what Math.random() returned to the mount effect's latest
                         \* generateCityData call (observation only, never read back)
  cameraModeRef,         \* gameRunningRef.current.cameraMode; "undefined" when the
                         \* object has no such property
  hud,                   \* gameState.cameraMode and gameState.isMapFullscreen
  cameraView,            \* the camera-follow branch the latest updateCar took, "none"
                         \* before the first (observation only)
  miniMap                \* the latest updateMiniMap drawing: the size and scale it drew
                         \* with, where it put the car's marker, and the width and
                         \* height of the canvas it drew on (observation only)

cityVars == <<buildingsDataRef, windowsDataRef, barriersDataRef, treesDataRef,
              propsDataRef, cloudsDataRef, trafficLightsDataRef>>

netVars == <<peerRef, connRef, conns, multiplayer, remotePlayersRef, sent, listeners,
             acquired, netEvent>>

hudVars == <<cameraModeRef, hud, cameraView, miniMap>>

vars == <<handles, mounted, gameRunningRef, gameState, currentZone, localStorage, car,
          keysRef, cityVars, pc, frameDelta, frames, lastCollision, initialItem, netVars,
          draws, hudVars>>

-----------------------------------------------------------------------------
(* Program constants, in thousandths *)

CAR_ACCELERATION == 600
CAR_BRAKE == 1200
CAR_FRICTION == 992
CAR_STEER_SPEED == 40
CAR_MAX_SPEED == 1800

\* animate: Math.min(clock.getDelta(), 0.1), in ticks of 1/60 s
MaxDeltaTicks == 6
\* updateCar: Math.pow(CAR_FRICTION, delta * 60): the friction exponent per second
TicksPerSecond == 60

\* physics frames counted (and, in the specifications that bound them, run) per session
MaxFrames == 2

Handles == {"scene", "camera", "renderer", "car"}

\* The key codes pressed in the model: the four codes the keyboard and the touch
\* buttons both set (updateCar also reads KeyW, KeyS, KeyA and KeyD, see Held)
KeyCodes == {"ArrowUp", "ArrowDown", "ArrowLeft", "ArrowRight"}

-----------------------------------------------------------------------------
(* Fixed-point arithmetic *)

Abs(a) == IF a < 0 THEN -a ELSE a

\* a / b for b > 0, truncated toward zero
TruncDiv(a, b) == IF a >= 0 THEN a \div b ELSE -((-a) \div b)

\* Math.round(a / b) for b > 0: JavaScript rounds halves toward +Infinity
RoundDiv(a, b) == (2 * a + b) \div (2 * b)

\* THREE.MathUtils.clamp
Clamp(v, lo, hi) == IF v < lo THEN lo ELSE IF v > hi THEN hi ELSE v

\* THREE.MathUtils.lerp(a, b, t) with t = tNum / 10
Lerp(a, b, tNum) == a + TruncDiv((b - a) * tNum, 10)

\* Math.sin and Math.cos of r thousandths of a radian, in thousandths, by the Taylor
\* polynomial of degree 5 resp. 4; exact to one thousandth for |r| <= 800
Sin(r) ==
  LET sq == (r * r) \div 1000
      r3 == TruncDiv(r * sq, 1000)
      r5 == TruncDiv(r3 * sq, 1000)
  IN  r - TruncDiv(r3, 6) + TruncDiv(r5, 120)

Cos(r) ==
  LET sq == (r * r) \div 1000
  IN  1000 - ((r * r + 1000) \div 2000) + (((sq * sq) \div 1000) \div 24)

-----------------------------------------------------------------------------
(* World generation: generateCityData and addBuilding of Game.tsx.          *)
(* Every Math.random() draw is an input: `s` holds, per loop, one sample    *)
(* per iteration, so a loop runs Len(sample sequence) times.                *)

EmptyCity ==
  [buildings |-> <<>>, windows |-> <<>>, barriers |-> <<>>, trees |-> <<>>,
   props |-> <<>>, clouds |-> <<>>, trafficLights |-> <<>>]

\* Math.round(v / 200) * 200: the nearest road centreline
GridLine(v) == RoundDiv(v, 200000) * 200000

\* a displacement of 20 instead of 60
Nudge_Short(v) ==
  IF Abs(v - GridLine(v)) < 30000
  THEN v + 20000 * (IF v > GridLine(v) THEN 1 ELSE -1)
  ELSE v

\* addBuilding's displacement of one coordinate away from the grid line
Nudge(v) ==
  IF Abs(v - GridLine(v)) < 30000
  THEN v + 60000 * (IF v > GridLine(v) THEN 1 ELSE -1)
  ELSE v

\* the windows addBuilding pushes for a building taller than 20, two per row
BuildingWindows(x, z, w, h, d) ==
  IF h > 20000
  THEN LET rows == h \div 4000
       IN  [k \in 1..(2 * rows) |->
             [x |-> x,
              y |-> 2000 + ((k - 1) \div 2) * 4000,
              z |-> IF k % 2 = 1 THEN z + TruncDiv(d, 2) + 100
                                 ELSE z - TruncDiv(d, 2) - 100,
              sx |-> TruncDiv(w * 7, 10), sy |-> 1500, sz |-> 100]]
  ELSE <<>>

addBuilding(c, x0, z0, w, h, d, type) ==
  LET x == Nudge(x0)
      z == Nudge(z0)
  IN  [c EXCEPT
         !.buildings = Append(@, [x |-> x, z |-> z, w |-> w, h |-> h, d |-> d,
                                  type |-> type]),
         !.windows = @ \o BuildingWindows(x, z, w, h, d)]

\* one `for` loop of generateCityData that only calls addBuilding: b[i] is the
\* i-th iteration's arguments
RECURSIVE BuildingLoop(_, _, _)
BuildingLoop(c, b, i) ==
  IF i > Len(b) THEN c
  ELSE BuildingLoop(addBuilding(c, b[i].x, b[i].z, b[i].w, b[i].h, b[i].d, b[i].type),
                    b, i + 1)

\* the parking-lot loop: addBuilding, then four barriers around the sampled (x, z)
RECURSIVE ParkingLoop(_, _, _)
ParkingLoop(c, p, i) ==
  IF i > Len(p) THEN c
  ELSE LET c1 == addBuilding(c, p[i].x, p[i].z, 80000, 500, 100000, 3)
           bar == [j \in 1..4 |->
                    [x |-> p[i].x + (IF (j - 1) % 2 = 1 THEN 40000 ELSE -40000),
                     y |-> 1000,
                     z |-> p[i].z + (IF j - 1 < 2 THEN 50000 ELSE -50000),
                     rotation |-> IF j - 1 < 2 THEN 0 ELSE 1571]]
       IN  ParkingLoop([c1 EXCEPT !.barriers = @ \o bar], p, i + 1)

\* the tree loop: a sample within 15 of a grid line is moved 12 away from it and
\* becomes a tree (with a bench when the bench draw exceeds 0.7); others are dropped
RECURSIVE TreeLoop(_, _, _)
TreeLoop(c, t, i) ==
  IF i > Len(t) THEN c
  ELSE LET nearZ == Abs(t[i].z - GridLine(t[i].z)) < 15000
           nearX == Abs(t[i].x - GridLine(t[i].x)) < 15000
           z == IF nearZ THEN t[i].z + 12000 * (IF t[i].z > GridLine(t[i].z) THEN 1 ELSE -1)
                ELSE t[i].z
           x == IF nearX THEN t[i].x + 12000 * (IF t[i].x > GridLine(t[i].x) THEN 1 ELSE -1)
                ELSE t[i].x
           c1 == IF nearZ \/ nearX
                 THEN [c EXCEPT
                         !.trees = Append(@, [x |-> x, y |-> 0, z |-> z, scale |-> t[i].scale]),
                         !.props = IF t[i].bench > 700
                                   THEN Append(@, [x |-> x + 3000, y |-> 400, z |-> z,
                                                   rotation |-> t[i].benchRot])
                                   ELSE @]
                 ELSE c
       IN  TreeLoop(c1, t, i + 1)

\* the traffic lights: two per intersection (i, j), i and j in -g..g
TrafficLights(g) ==
  LET n == 2 * g + 1
  IN  [k \in 1..(2 * n * n) |->
        LET i == (((k - 1) \div 2) \div n) - g
            j == (((k - 1) \div 2) % n) - g
        IN  IF k % 2 = 1
            THEN [x |-> i * 200000 + 12000, y |-> 0, z |-> j * 200000 + 12000, rotation |-> 0]
            ELSE [x |-> i * 200000 - 12000, y |-> 0, z |-> j * 200000 - 12000,
                  rotation |-> 3142]]

\* [x, z, w, h, d] samples of a loop as addBuilding arguments of the given type
Typed(b, type) ==
  [i \in 1..Len(b) |-> [x |-> b[i].x, z |-> b[i].z, w |-> b[i].w, h |-> b[i].h,
                        d |-> b[i].d, type |-> type]]

Government(b) ==
  [i \in 1..Len(b) |-> [x |-> b[i].x, z |-> b[i].z, w |-> 60000, h |-> 40000,
                        d |-> 60000, type |-> 7]]

Healthcare(b) ==
  [i \in 1..Len(b) |->
     [x |-> b[i].x, z |-> b[i].z,
      w |-> IF b[i].isClinic THEN 40000 ELSE 100000,
      h |-> IF b[i].isClinic THEN 15000 ELSE 40000,
      d |-> IF b[i].isClinic THEN 40000 ELSE 80000, type |-> 5]]

Education(b) ==
  [i \in 1..Len(b) |->
     [x |-> b[i].x, z |-> b[i].z,
      w |-> IF b[i].isSchool THEN 60000 ELSE 120000,
      h |-> IF b[i].isSchool THEN 15000 ELSE 30000,
      d |-> IF b[i].isSchool THEN 60000 ELSE 120000, type |-> 6]]

\* the loops of generateCityData, after its guard
Populate(c, s) ==
  LET c1 == BuildingLoop(c, Typed(s.downtown, 0), 1)
      c2 == BuildingLoop(c1, Government(s.government), 1)
      c3 == BuildingLoop(c2, Typed(s.residential, 1), 1)
      c4 == BuildingLoop(c3, Typed(s.commercial, 4), 1)
      c5 == BuildingLoop(c4, Healthcare(s.healthcare), 1)
      c6 == BuildingLoop(c5, Education(s.education), 1)
      c7 == ParkingLoop(c6, s.parking, 1)
      c8 == TreeLoop(c7, s.trees, 1)
  IN  [c8 EXCEPT !.clouds = @ \o s.clouds,
                 !.trafficLights = @ \o TrafficLights(s.grid)]

\* generation without the guard
generateCityData_Unguarded(c, s) == Populate(c, s)

generateCityData(c, s) ==
  IF Len(c.buildings) > 0 THEN c ELSE Populate(c, s)

-----------------------------------------------------------------------------
(* The remote-player table and the relay of Game.tsx *)

\* the peers that can connect or be connected to
Peers == {"p1", "p2"}

\* connRef.current === null
NoConn == <<>>

\* a DataConnection is named by its peer (conn.peer) and by who opened it: "in" was
\* handed to peer.on('connection'), "out" was returned by peerRef.current.connect
ConnIds == Peers \X {"in", "out"}

\* Vector3.lerp and MathUtils.lerp with alpha = pct / 100
LerpPct(a, b, pct) == a + TruncDiv((b - a) * pct, 100)

\* an updateRemotePlayer that keeps the target pose of the peer's first message
updateRemotePlayer_KeepsFirst(players, id, payload) ==
  IF "scene" \notin handles THEN players
  ELSE IF id \in DOMAIN players
       THEN players
       ELSE [p \in DOMAIN players \cup {id} |->
               IF p = id
               THEN [mesh |-> [x |-> 0, y |-> 0, z |-> 0, rotY |-> 0],
                     targetPos |-> payload.pos, targetRot |-> payload.rotation]
               ELSE players[p]]

\* updateRemotePlayer: the table after a pose from peer `id` was handled.  A new
\* entry's mesh is a createCar() at the origin; lastUpdate (Date.now()) is written
\* here and read nowhere, and is left out
updateRemotePlayer(players, id, payload) ==
  IF "scene" \notin handles THEN players
  ELSE IF id \in DOMAIN players
       THEN [players EXCEPT ![id].targetPos = payload.pos,
                            ![id].targetRot = payload.rotation]
       ELSE [p \in DOMAIN players \cup {id} |->
               IF p = id
               THEN [mesh |-> [x |-> 0, y |-> 0, z |-> 0, rotY |-> 0],
                     targetPos |-> payload.pos, targetRot |-> payload.rotation]
               ELSE players[p]]

\* a removeRemotePlayer that leaves the entry in the table
removeRemotePlayer_Keeps(players, id) == players

\* removeRemotePlayer: the table after peer `id` was removed
removeRemotePlayer(players, id) ==
  IF id \in DOMAIN players /\ "scene" \in handles
  THEN [p \in DOMAIN players \ {id} |-> players[p]]
  ELSE players

\* updateCar's forEach over the table: every mesh moves 0.15 of the way to its target
Interpolate(players) ==
  [p \in DOMAIN players |->
     [players[p] EXCEPT
        !.mesh = [x |-> LerpPct(@.x, players[p].targetPos.x, 15),
                  y |-> LerpPct(@.y, players[p].targetPos.y, 15),
                  z |-> LerpPct(@.z, players[p].targetPos.z, 15),
                  rotY |-> LerpPct(@.rotY, players[p].targetRot, 15)]]]

\* an updateCar that sends nothing
SendUpdate_Never(pos, rotation, speed) == <<>>

\* updateCar's last statement: what is passed to connRef.current.send
SendUpdate(pos, rotation, speed) ==
  IF connRef # NoConn /\ conns[connRef].state = "open"
  THEN <<[to |-> connRef, type |-> "update",
          payload |-> [pos |-> pos, rotation |-> rotation, speed |-> speed]]>>
  ELSE <<>>

-----------------------------------------------------------------------------
(* The camera mode and the minimap *)

CameraModes == {"third", "first", "top"}

\* updateCar's camera follow: `if (cameraMode === 'third') ... else if (cameraMode ===
\* 'first') ... else` is the top-down camera
CameraBranch(mode) ==
  IF mode = "third" THEN "third" ELSE IF mode = "first" THEN "first" ELSE "top"

\* no drawing yet
NoDrawing == [size |-> 0, scale |-> 0, marker |-> 0, canvas |-> 0]

\* gameState.isMapFullscreen as updateMiniMap reads it.  The mount effect has no
\* dependencies, so the animate it starts keeps calling the updateCar and the
\* updateMiniMap of the render the effect was created in, the first, and the gameState
\* of that render is the initial state
CapturedFullscreen == FALSE

\* updateMiniMap of Game.tsx with the map canvas and the car present: size and scale
\* (in thousandths) from the gameState it reads, the marker at (size / 2, size / 2),
\* on the canvas as rendered for the current gameState, `fullscreen`
updateMiniMap(fullscreen) ==
  [size |-> IF CapturedFullscreen THEN 600 ELSE 150,
   scale |-> IF CapturedFullscreen THEN 50 ELSE 100,
   marker |-> (IF CapturedFullscreen THEN 600 ELSE 150) \div 2,
   canvas |-> IF fullscreen THEN 600 ELSE 120]

\* updateMiniMap of part_000: a size of 150 on a canvas of 150
updateMiniMap_p0 == [size |-> 150, scale |-> 100, marker |-> 150 \div 2, canvas |-> 150]

-----------------------------------------------------------------------------
(* updateCar of Game.tsx *)

\* keys[a] || keys[b]
Held(keys, a, b) == a \in keys \/ b \in keys

\* a road without friction
FrictionFactor_None(k) == 1000000

\* Math.pow(CAR_FRICTION, delta * 60) for delta = k ticks, in millionths
RECURSIVE FrictionFactor(_)
FrictionFactor(k) ==
  IF k = 0 THEN 1000000 ELSE (FrictionFactor(k - 1) * CAR_FRICTION) \div 1000

\* a brake of CAR_BRAKE instead of CAR_BRAKE * 2
Acceleration_BrakeOnce(keys, speed) ==
  (IF Held(keys, "ArrowUp", "KeyW") THEN CAR_ACCELERATION ELSE 0)
  - (IF Held(keys, "ArrowDown", "KeyS")
     THEN (IF speed > 50 THEN CAR_BRAKE ELSE CAR_ACCELERATION)
     ELSE 0)

\* the local `acceleration` after the two key tests
Acceleration(keys, speed) ==
  (IF Held(keys, "ArrowUp", "KeyW") THEN CAR_ACCELERATION ELSE 0)
  - (IF Held(keys, "ArrowDown", "KeyS")
     THEN (IF speed > 50 THEN CAR_BRAKE * 2 ELSE CAR_ACCELERATION)
     ELSE 0)

\* the local `speed` after the acceleration / friction step, before steering and clamp
Longitudinal(keys, speed, delta) ==
  IF Acceleration(keys, speed) # 0
  THEN speed + TruncDiv(Acceleration(keys, speed) * delta, TicksPerSecond)
  ELSE LET coast == TruncDiv(speed * FrictionFactor(delta), 1000000)
       IN  IF Abs(coast) < 5 THEN 0 ELSE coast

\* steering that does not reverse with the direction of travel
Steering_Unsigned(keys, sp, rotation) ==
  IF Abs(sp) > 10
  THEN LET left == IF Held(keys, "ArrowLeft", "KeyA") THEN CAR_STEER_SPEED ELSE 0
           right == IF Held(keys, "ArrowRight", "KeyD") THEN -CAR_STEER_SPEED ELSE 0
       IN  rotation + left + right
  ELSE rotation

\* steering that ignores the speed threshold
Steering_Always(keys, sp, rotation) ==
  LET steerDir == IF sp > 0 THEN 1 ELSE -1
      left == IF Held(keys, "ArrowLeft", "KeyA") THEN CAR_STEER_SPEED * steerDir ELSE 0
      right == IF Held(keys, "ArrowRight", "KeyD") THEN (-CAR_STEER_SPEED) * steerDir ELSE 0
  IN  rotation + left + right

\* the local `rotation` after the steering step; sp is the local speed at that point
Steering(keys, sp, rotation) ==
  IF Abs(sp) > 10
  THEN LET steerDir == IF sp > 0 THEN 1 ELSE -1
           left == IF Held(keys, "ArrowLeft", "KeyA") THEN CAR_STEER_SPEED * steerDir ELSE 0
           right == IF Held(keys, "ArrowRight", "KeyD") THEN (-CAR_STEER_SPEED) * steerDir ELSE 0
       IN  rotation + left + right
  ELSE rotation

\* a clamp that lets every speed through
ClampSpeed_Unclamped(sp) == sp

\* THREE.MathUtils.clamp(speed, -CAR_MAX_SPEED / 2, CAR_MAX_SPEED)
ClampSpeed(sp) == Clamp(sp, -(CAR_MAX_SPEED \div 2), CAR_MAX_SPEED)

\* the height of the first ground object under (x, z): a road plane (0.02) on the
\* vertical roads and on the horizontal roads other than the one through z = 0 (which
\* is not in groundObjectsRef), else the terrain, which is flat (0) in the city core
GroundY(x, z) ==
  IF Abs(x - GridLine(x)) <= 10000 \/ (Abs(z - GridLine(z)) <= 10000 /\ GridLine(z) # 0)
  THEN 20 ELSE 0

\* the zone updateCar computes from the car's position
Zone(px, pz) ==
  IF px > 400000 /\ pz > 400000 THEN "Residential Area"
  ELSE IF px < -400000 /\ pz > 200000 THEN "Commercial District"
  ELSE IF px < -400000 /\ pz < -400000 THEN "Industrial District"
  ELSE IF px > 400000 /\ pz < -400000 THEN "University Campus"
  ELSE IF Abs(px) > 1200000 \/ Abs(pz) > 1200000 THEN "Outskirts"
  ELSE "Downtown"

updateCar(delta) ==
  IF ~({"car", "camera"} \subseteq handles)
  THEN /\ sent' = <<>>
       /\ UNCHANGED <<gameRunningRef, gameState, car, currentZone, remotePlayersRef,
                      cameraView, miniMap>>
  ELSE LET keys == keysRef
           sp == Longitudinal(keys, gameRunningRef.speed, delta)
           rotation == Steering(keys, sp, gameRunningRef.rotation)
           speed == ClampSpeed(sp)
           x == car.x + TruncDiv(Sin(rotation) * speed, 1000)
           z == car.z + TruncDiv(Cos(rotation) * speed, 1000)
       IN  /\ car' = [x |-> x, y |-> Lerp(car.y, GroundY(x, z), 2), z |-> z,
                      rotY |-> rotation]
           /\ gameRunningRef' = [gameRunningRef EXCEPT !.speed = speed,
                                                       !.rotation = rotation]
           /\ gameState' = [gameState EXCEPT !.speed = Abs(RoundDiv(speed, 10))]
           /\ currentZone' = Zone(x, z)
           /\ remotePlayersRef' = Interpolate(remotePlayersRef)
           /\ cameraView' = CameraBranch(cameraModeRef)
           /\ miniMap' = updateMiniMap(hud.isMapFullscreen)
           /\ sent' = SendUpdate([x |-> x, y |-> Lerp(car.y, GroundY(x, z), 2), z |-> z],
                                 rotation, speed)

-----------------------------------------------------------------------------
(* checkCollisions and gameOver of Game.tsx *)

\* a loop that skips nothing
Exempt_None(b) == FALSE

\* data.type === 3 || data.scale.y < 1
Exempt(b) == b.type = 3 \/ b.h < 1000

\* dx < data.scale.x / 2 + 1 && dz < data.scale.z / 2 + 1 (both sides doubled)
Overlaps(b, x, z) ==
  /\ 2 * Abs(x - b.x) < b.w + 2000
  /\ 2 * Abs(z - b.z) < b.d + 2000

\* a bounce that turns the speed and leaves the car where it is
Bounce_NoPush(r, b, i) ==
  [speed |-> TruncDiv(-r.speed, 2), x |-> r.x, z |-> r.z, n |-> r.n + 1,
   first |-> IF r.n = 0 THEN i ELSE r.first]

\* a bounce that does not push on an axis where the car is on the building's centre
Bounce_NoPushAtCentre(r, b, i) ==
  [speed |-> TruncDiv(-r.speed, 2),
   x |-> r.x + (IF r.x - b.x > 0 THEN 1 ELSE IF r.x - b.x < 0 THEN -1 ELSE 0) * 500,
   z |-> r.z + (IF r.z - b.z > 0 THEN 1 ELSE IF r.z - b.z < 0 THEN -1 ELSE 0) * 500,
   n |-> r.n + 1,
   first |-> IF r.n = 0 THEN i ELSE r.first]

\* the body of the `if`: the bounce against building b, the i-th of the array.
\* r holds the speed and the position the loop works on and counts the responses
Bounce(r, b, i) ==
  [speed |-> TruncDiv(-r.speed, 2),
   x |-> r.x + (IF r.x - b.x > 0 THEN 1 ELSE -1) * 500,
   z |-> r.z + (IF r.z - b.z > 0 THEN 1 ELSE -1) * 500,
   n |-> r.n + 1,
   first |-> IF r.n = 0 THEN i ELSE r.first]

\* the `for` loop without its `break`: it goes on to the later buildings
RECURSIVE CollisionLoop_NoBreak(_, _, _)
CollisionLoop_NoBreak(r, b, i) ==
  IF i > Len(b) THEN r
  ELSE IF ~Exempt(b[i]) /\ Overlaps(b[i], r.x, r.z)
       THEN CollisionLoop_NoBreak(Bounce(r, b[i], i), b, i + 1)
       ELSE CollisionLoop_NoBreak(r, b, i + 1)

\* the `for` loop from the i-th building on; the `break` ends it at the first response
RECURSIVE CollisionLoop(_, _, _)
CollisionLoop(r, b, i) ==
  IF i > Len(b) THEN r
  ELSE IF ~Exempt(b[i]) /\ Overlaps(b[i], r.x, r.z)
       THEN Bounce(r, b[i], i)
       ELSE CollisionLoop(r, b, i + 1)

\* a checkCollisions whose response ends the session instead of bouncing
checkCollisions_Terminal ==
  IF "car" \notin handles
  THEN UNCHANGED <<gameRunningRef, car, lastCollision>>
  ELSE LET r == CollisionLoop([speed |-> gameRunningRef.speed, x |-> car.x, z |-> car.z,
                               n |-> 0, first |-> 0], buildingsDataRef, 1)
       IN  /\ gameRunningRef' = IF r.n > 0
                                THEN [gameRunningRef EXCEPT !.isGameOver = TRUE,
                                                            !.isStarted = FALSE]
                                ELSE gameRunningRef
           /\ car' = car
           /\ lastCollision' = [n |-> r.n, first |-> r.first]

\* a checkCollisions without its null check
checkCollisions_Unguarded ==
  LET r == CollisionLoop([speed |-> gameRunningRef.speed, x |-> car.x, z |-> car.z,
                          n |-> 0, first |-> 0], buildingsDataRef, 1)
  IN  /\ gameRunningRef' = [gameRunningRef EXCEPT !.speed = r.speed]
      /\ car' = [car EXCEPT !.x = r.x, !.z = r.z]
      /\ lastCollision' = [n |-> r.n, first |-> r.first]

checkCollisions ==
  IF "car" \notin handles
  THEN UNCHANGED <<gameRunningRef, car, lastCollision>>
  ELSE LET r == CollisionLoop([speed |-> gameRunningRef.speed, x |-> car.x, z |-> car.z,
                               n |-> 0, first |-> 0], buildingsDataRef, 1)
       IN  /\ gameRunningRef' = [gameRunningRef EXCEPT !.speed = r.speed]
           /\ car' = [car EXCEPT !.x = r.x, !.z = r.z]
           /\ lastCollision' = [n |-> r.n, first |-> r.first]

\* a maximum that always takes its first argument
Max_First(a, b) == a

\* Math.max
Max(a, b) == IF a > b THEN a ELSE b

\* a gameOver that stores the session's score
gameOver_StoresScore ==
  /\ gameRunningRef' = [gameRunningRef EXCEPT !.isGameOver = TRUE, !.isStarted = FALSE]
  /\ gameState' = [gameState EXCEPT !.isGameOver = TRUE, !.highScore = gameState.score]
  /\ localStorage' = <<gameState.score>>

\* gameOver: never called in Game.tsx; called by checkCollisions in part_000
gameOver ==
  /\ gameRunningRef' = [gameRunningRef EXCEPT !.isGameOver = TRUE, !.isStarted = FALSE]
  /\ gameState' = [gameState EXCEPT !.isGameOver = TRUE,
                                    !.highScore = Max(gameState.score, gameState.highScore)]
  /\ localStorage' = <<Max(gameState.score, gameState.highScore)>>

-----------------------------------------------------------------------------
(* The handlers *)

City ==
  [buildings |-> buildingsDataRef, windows |-> windowsDataRef,
   barriers |-> barriersDataRef, trees |-> treesDataRef, props |-> propsDataRef,
   clouds |-> cloudsDataRef, trafficLights |-> trafficLightsDataRef]

SetCity(c) ==
  /\ buildingsDataRef' = c.buildings
  /\ windowsDataRef' = c.windows
  /\ barriersDataRef' = c.barriers
  /\ treesDataRef' = c.trees
  /\ propsDataRef' = c.props
  /\ cloudsDataRef' = c.clouds
  /\ trafficLightsDataRef' = c.trafficLights

\* the window listeners the mount effect adds and its cleanup removes: checkOrientation
\* and handleResize on 'resize', handleKeyDown and handleKeyUp
EffectListeners == {"resize:checkOrientation", "resize:handleResize", "keydown", "keyup"}

\* a value of netEvent: the handler, and for a connection's callbacks the connection
\* and the message received
Event(kind) == [kind |-> kind, conn |-> NoConn, msg |-> <<>>]

\* the open connections whose close handler setupConnection registered
Listening == {c \in ConnIds : conns[c].state = "open" /\ conns[c].setup}

\* removeRemotePlayer for each peer of `ids`
RECURSIVE RemoveAll(_, _)
RemoveAll(players, ids) ==
  IF ids = {} THEN players
  ELSE LET id == CHOOSE i \in ids : TRUE
       IN  RemoveAll(removeRemotePlayer(players, id), ids \ {id})

\* const [gameState] = useState(...): highScore is parseInt(getItem(...) || '0')
InitialHighScore(item) == IF item = <<>> THEN 0 ELSE item[1]

\* the mount effect with the container present: scene, camera, renderer and a new car
\* are created, the city is generated, the listeners are added and animate starts.
\* s is what the Math.random() calls of generateCityData return
Mount(s) ==
  /\ ~mounted
  /\ mounted' = TRUE
  /\ handles' = Handles
  /\ car' = [x |-> 0, y |-> 0, z |-> 0, rotY |-> 0]
  /\ SetCity(generateCityData(City, s))
  /\ draws' = IF Len(buildingsDataRef) > 0 THEN draws ELSE s
  /\ peerRef' = "live"
  /\ listeners' = listeners \cup EffectListeners \cup {"beforeinstallprompt"}
  /\ acquired' = {"canvas", "renderer"}
  /\ netEvent' = Event("mount")
  /\ UNCHANGED <<gameRunningRef, gameState, currentZone, localStorage, keysRef, pc,
                 frameDelta, frames, lastCollision, initialItem, connRef, conns,
                 multiplayer, remotePlayersRef, sent, hudVars>>

\* the effect's cleanup, run with the container still attached: the four listeners
\* of the effect are removed, the peer is destroyed, the frame request is cancelled,
\* the canvas is taken out of the container and the renderer is disposed.
\* peer.destroy() closes the peer's connections: the open ones emit 'close', which
\* runs the close handler of setupConnection where it is registered
Unmount ==
  /\ mounted
  /\ pc = "idle"
  /\ mounted' = FALSE
  /\ listeners' = listeners \ EffectListeners
  /\ peerRef' = "destroyed"
  /\ acquired' = {}
  /\ conns' = [c \in ConnIds |->
                IF conns[c].state \in {"connecting", "open"}
                THEN [conns[c] EXCEPT !.state = "closed"] ELSE conns[c]]
  /\ remotePlayersRef' = RemoveAll(remotePlayersRef, {c[1] : c \in Listening})
  /\ multiplayer' = IF Listening # {}
                    THEN [multiplayer EXCEPT !.isConnected = FALSE, !.status = "idle"]
                    ELSE multiplayer
  /\ netEvent' = Event("unmount")
  /\ UNCHANGED <<handles, gameRunningRef, gameState, currentZone, localStorage, car,
                 keysRef, cityVars, pc, frameDelta, frames, lastCollision, initialItem,
                 connRef, sent, draws, hudVars>>

\* a startGame that leaves the car where it is
startGame_KeepsCar ==
  /\ mounted
  /\ pc = "idle"
  /\ gameRunningRef' = [isStarted |-> TRUE, isGameOver |-> FALSE, score |-> 0,
                        speed |-> 0, rotation |-> 0]
  /\ gameState' = [gameState EXCEPT !.score = 0, !.isGameOver = FALSE,
                                    !.isStarted = TRUE, !.speed = 0]
  /\ frames' = 0
  /\ cameraModeRef' = "undefined"
  /\ UNCHANGED <<handles, mounted, currentZone, localStorage, car, keysRef, cityVars, pc,
                 frameDelta, lastCollision, initialItem, netVars, draws, hud, cameraView,
                 miniMap>>

\* the start and restart buttons.  The start screen stays in the document, and its
\* button clickable, while its exit animation plays, so startGame can also run in a
\* session that is already running
startGame ==
  /\ mounted
  /\ pc = "idle"
  /\ gameRunningRef' = [isStarted |-> TRUE, isGameOver |-> FALSE, score |-> 0,
                        speed |-> 0, rotation |-> 0]
  /\ car' = IF "car" \in handles THEN [x |-> 0, y |-> 0, z |-> 0, rotY |-> 0] ELSE car
  /\ gameState' = [gameState EXCEPT !.score = 0, !.isGameOver = FALSE,
                                    !.isStarted = TRUE, !.speed = 0]
  /\ frames' = 0
  /\ cameraModeRef' = "undefined"
  /\ UNCHANGED <<handles, mounted, currentZone, localStorage, keysRef, cityVars, pc,
                 frameDelta, lastCollision, initialItem, netVars, draws, hud, cameraView,
                 miniMap>>

\* handleKeyDown, and onTouchStart of the four touch buttons
handleKeyDown(code) ==
  /\ mounted
  /\ pc = "idle"
  /\ keysRef' = keysRef \cup {code}
  /\ UNCHANGED <<handles, mounted, gameRunningRef, gameState, currentZone, localStorage,
                 car, cityVars, pc, frameDelta, frames, lastCollision, initialItem, netVars,
                 draws, hudVars>>

\* handleKeyUp, and onTouchEnd / onPointerLeave of the four touch buttons
handleKeyUp(code) ==
  /\ mounted
  /\ pc = "idle"
  /\ keysRef' = keysRef \ {code}
  /\ UNCHANGED <<handles, mounted, gameRunningRef, gameState, currentZone, localStorage,
                 car, cityVars, pc, frameDelta, frames, lastCollision, initialItem, netVars,
                 draws, hudVars>>

\* the HUD's buttons are under the start screen (z-10 under an overlay of z-20) and
\* can be pressed once it is gone
HudShown == gameState.isStarted /\ ~gameState.isGameOver

\* onClick of a camera toggle button
setCameraMode(mode) ==
  /\ mounted
  /\ pc = "idle"
  /\ HudShown
  /\ cameraModeRef' = mode
  /\ hud' = [hud EXCEPT !.cameraMode = mode]
  /\ UNCHANGED <<handles, mounted, gameRunningRef, gameState, currentZone, localStorage,
                 car, keysRef, cityVars, pc, frameDelta, frames, lastCollision, initialItem,
                 netVars, draws, cameraView, miniMap>>

\* onClick of the minimap's button
toggleMapFullscreen ==
  /\ mounted
  /\ pc = "idle"
  /\ HudShown
  /\ hud' = [hud EXCEPT !.isMapFullscreen = ~hud.isMapFullscreen]
  /\ UNCHANGED <<handles, mounted, gameRunningRef, gameState, currentZone, localStorage,
                 car, keysRef, cityVars, pc, frameDelta, frames, lastCollision, initialItem,
                 netVars, draws, cameraModeRef, cameraView, miniMap>>

\* a loop that runs the physics whatever the session's flags say
Running_Always == TRUE

Running == gameRunningRef.isStarted /\ ~gameRunningRef.isGameOver

\* a frame time that is the clock's reading as it comes
FrameDelta_Unclamped(elapsed) == elapsed

\* const delta = Math.min(clockRef.current.getDelta(), 0.1), in ticks
FrameDelta(elapsed) == IF elapsed < MaxDeltaTicks THEN elapsed ELSE MaxDeltaTicks

\* animate, first half: a frame of a running session calls updateCar(delta)
animateUpdate(delta) ==
  /\ mounted
  /\ pc = "idle"
  /\ Running
  /\ updateCar(delta)
  /\ pc' = "collide"
  /\ frameDelta' = delta
  /\ frames' = IF frames < MaxFrames THEN frames + 1 ELSE frames
  /\ netEvent' = Event("frame")
  /\ UNCHANGED <<handles, mounted, localStorage, keysRef, cityVars, lastCollision,
                 initialItem, peerRef, connRef, conns, multiplayer, listeners, acquired,
                 draws, cameraModeRef, hud>>

\* animate, second half: checkCollisions, then the frame is rendered
animateCollide ==
  /\ pc = "collide"
  /\ checkCollisions
  /\ pc' = "idle"
  /\ frameDelta' = 0
  /\ UNCHANGED <<handles, mounted, gameState, currentZone, localStorage, keysRef,
                 cityVars, frames, initialItem, netVars, draws, hudVars>>

\* animate in a session that is not running: the frame is rendered and nothing else
animateIdle ==
  /\ mounted
  /\ pc = "idle"
  /\ ~Running
  /\ sent' = <<>>
  /\ netEvent' = Event("frame")
  /\ UNCHANGED <<handles, mounted, gameRunningRef, gameState, currentZone, localStorage,
                 car, keysRef, cityVars, pc, frameDelta, frames, lastCollision,
                 initialItem, peerRef, connRef, conns, multiplayer, remotePlayersRef,
                 listeners, acquired, draws, hudVars>>

\* what no peer-session callback touches
gameVars == <<handles, mounted, gameRunningRef, gameState, currentZone, localStorage, car,
              keysRef, cityVars, pc, frameDelta, frames, lastCollision, initialItem,
              peerRef, sent, listeners, acquired, draws, hudVars>>

\* peer.on('open'): the broker has assigned this peer its id
peerOpen ==
  /\ peerRef = "live"
  /\ pc = "idle"
  /\ multiplayer.peerId = ""
  /\ multiplayer' = [multiplayer EXCEPT !.peerId = "me"]
  /\ netEvent' = Event("peerOpen")
  /\ UNCHANGED <<gameVars, connRef, conns, remotePlayersRef>>

\* peer.on('connection'): peer p has opened a connection to this peer.  The data
\* channel is not open yet (conn.open is false until the connection's 'open' event).
\* One connection per peer and direction is followed
peerConnection(p) ==
  /\ peerRef = "live"
  /\ pc = "idle"
  /\ conns[<<p, "in">>].state = "none"
  /\ connRef' = <<p, "in">>
  /\ conns' = [conns EXCEPT ![<<p, "in">>] = [state |-> "connecting", setup |-> TRUE]]
  /\ multiplayer' = [multiplayer EXCEPT !.isConnected = TRUE, !.isHost = TRUE,
                                        !.status = "connected"]
  /\ netEvent' = [Event("connection") EXCEPT !.conn = <<p, "in">>]
  /\ UNCHANGED <<gameVars, remotePlayersRef>>

\* the 'open' event of connection c: its data channel is open.  Only connectToPeer
\* registers a handler for it
connOpen(c) ==
  /\ pc = "idle"
  /\ conns[c].state = "connecting"
  /\ conns' = [conns EXCEPT ![c] = [state |-> "open",
                                    setup |-> IF c[2] = "out" THEN TRUE ELSE @.setup]]
  /\ multiplayer' = IF c[2] = "out"
                    THEN [multiplayer EXCEPT !.isConnected = TRUE, !.isHost = FALSE,
                                             !.status = "connected"]
                    ELSE multiplayer
  /\ netEvent' = [Event("open") EXCEPT !.conn = c]
  /\ UNCHANGED <<gameVars, connRef, remotePlayersRef>>

\* the 'data' event of connection c with message m: the handler of setupConnection
connData(c, m) ==
  /\ pc = "idle"
  /\ conns[c].state = "open"
  /\ conns[c].setup
  /\ remotePlayersRef' = IF m.type = "update"
                         THEN updateRemotePlayer(remotePlayersRef, c[1], m.payload)
                         ELSE remotePlayersRef
  /\ netEvent' = [Event("data") EXCEPT !.conn = c, !.msg = m]
  /\ UNCHANGED <<gameVars, connRef, conns, multiplayer>>

\* the 'close' event of connection c: the handler of setupConnection, where registered
connClose(c) ==
  /\ pc = "idle"
  /\ conns[c].state = "open"
  /\ conns' = [conns EXCEPT ![c].state = "closed"]
  /\ remotePlayersRef' = IF conns[c].setup
                         THEN removeRemotePlayer(remotePlayersRef, c[1])
                         ELSE remotePlayersRef
  /\ multiplayer' = IF conns[c].setup
                    THEN [multiplayer EXCEPT !.isConnected = FALSE, !.status = "idle"]
                    ELSE multiplayer
  /\ netEvent' = [Event("close") EXCEPT !.conn = c]
  /\ UNCHANGED <<gameVars, connRef>>

\* the 'error' event of connection c: connectToPeer registers a handler on the
\* connection it opens; a connection handed to peer.on('connection') has none
connError(c) ==
  /\ pc = "idle"
  /\ conns[c].state \in {"connecting", "open"}
  /\ multiplayer' = IF c[2] = "out" THEN [multiplayer EXCEPT !.status = "error"]
                    ELSE multiplayer
  /\ netEvent' = [Event("error") EXCEPT !.conn = c]
  /\ UNCHANGED <<gameVars, connRef, conns, remotePlayersRef>>

\* onChange of the lobby's input, which is rendered once the peer has its id
setTargetPeerId(p) ==
  /\ mounted
  /\ pc = "idle"
  /\ multiplayer.peerId # ""
  /\ multiplayer' = [multiplayer EXCEPT !.targetPeerId = p]
  /\ netEvent' = Event("input")
  /\ UNCHANGED <<gameVars, connRef, conns, remotePlayersRef>>

\* connectToPeer, the onClick of the lobby's Join button, which is disabled while
\* status is 'connecting' or isConnected is true.  One connection per peer and
\* direction is followed
connectToPeer ==
  /\ mounted
  /\ pc = "idle"
  /\ multiplayer.peerId # ""
  /\ multiplayer.status # "connecting"
  /\ ~multiplayer.isConnected
  /\ netEvent' = Event("connectToPeer")
  /\ IF peerRef = "null" \/ multiplayer.targetPeerId = ""
     THEN UNCHANGED <<connRef, conns, multiplayer>>
     ELSE LET c == <<multiplayer.targetPeerId, "out">>
          IN  /\ conns[c].state = "none"
              /\ multiplayer' = [multiplayer EXCEPT !.status = "connecting"]
              /\ connRef' = c
              /\ conns' = [conns EXCEPT ![c] = [state |-> "connecting", setup |-> FALSE]]
  /\ UNCHANGED <<gameVars, remotePlayersRef>>

-----------------------------------------------------------------------------
(* The variant of part_000 (its second file, lines 564-1670): other constants, *)
(* a simpler updateCar, and a checkCollisions that ends the session.  Its       *)
(* animate, startGame, gameOver and key handlers read as those of Game.tsx.     *)

P0_CAR_ACCELERATION == 500
P0_CAR_BRAKE == 800
P0_CAR_FRICTION == 980
P0_CAR_MAX_SPEED == 1500

\* the windows of part_000's addBuilding: ten rows on a building taller than 40
BuildingWindows_p0(x, z, w, h, d) ==
  IF h > 40000
  THEN [k \in 1..20 |->
         [x |-> x,
          y |-> TruncDiv(h, 10) + TruncDiv(((k - 1) \div 2) * TruncDiv(h * 8, 10), 10),
          z |-> IF k % 2 = 1 THEN z + TruncDiv(d, 2) + 100
                             ELSE z - TruncDiv(d, 2) - 100,
          sx |-> TruncDiv(w * 8, 10), sy |-> 500, sz |-> 100]]
  ELSE <<>>

addBuilding_p0(c, x0, z0, w, h, d, type) ==
  LET x == Nudge(x0)
      z == Nudge(z0)
  IN  [c EXCEPT
         !.buildings = Append(@, [x |-> x, z |-> z, w |-> w, h |-> h, d |-> d,
                                  type |-> type]),
         !.windows = @ \o BuildingWindows_p0(x, z, w, h, d)]

RECURSIVE BuildingLoop_p0(_, _, _)
BuildingLoop_p0(c, b, i) ==
  IF i > Len(b) THEN c
  ELSE BuildingLoop_p0(addBuilding_p0(c, b[i].x, b[i].z, b[i].w, b[i].h, b[i].d,
                                      b[i].type), b, i + 1)

\* part_000's generateCityData: downtown, residential, industrial, parking lots
\* (no window on a lot 0.5 high, so ParkingLoop's addBuilding pushes the same),
\* trees and clouds; it has no traffic lights
generateCityData_p0(c, s) ==
  IF Len(c.buildings) > 0 THEN c
  ELSE LET c1 == BuildingLoop_p0(c, Typed(s.downtown, 0), 1)
           c2 == BuildingLoop_p0(c1, Typed(s.residential, 1), 1)
           c3 == BuildingLoop_p0(c2, Typed(s.industrial, 2), 1)
           c4 == ParkingLoop(c3, s.parking, 1)
           c5 == TreeLoop(c4, s.trees, 1)
       IN  [c5 EXCEPT !.clouds = @ \o s.clouds]

\* the local `speed` after the if / else-if / else on the accelerate and brake keys
Longitudinal_p0(keys, speed, delta) ==
  IF Held(keys, "ArrowUp", "KeyW")
  THEN speed + TruncDiv(P0_CAR_ACCELERATION * delta, TicksPerSecond)
  ELSE IF Held(keys, "ArrowDown", "KeyS")
       THEN speed - TruncDiv(P0_CAR_BRAKE * delta, TicksPerSecond)
       ELSE TruncDiv(speed * P0_CAR_FRICTION, 1000)

ClampSpeed_p0(sp) == Clamp(sp, -(P0_CAR_MAX_SPEED \div 2), P0_CAR_MAX_SPEED)

Zone_p0(px, pz) ==
  IF px > 300000 /\ pz > 300000 THEN "Residential"
  ELSE IF px < -300000 /\ pz < -300000 THEN "Industrial District"
  ELSE IF Abs(px) > 800000 \/ Abs(pz) > 800000 THEN "Outskirts"
  ELSE "Downtown"

updateCar_p0(delta) ==
  IF ~({"car", "camera"} \subseteq handles)
  THEN /\ sent' = <<>>
       /\ UNCHANGED <<gameRunningRef, gameState, car, currentZone, remotePlayersRef,
                      cameraView, miniMap>>
  ELSE LET keys == keysRef
           sp == Longitudinal_p0(keys, gameRunningRef.speed, delta)
           rotation == Steering(keys, sp, gameRunningRef.rotation)
           speed == ClampSpeed_p0(sp)
           x == car.x + TruncDiv(Sin(rotation) * speed, 1000)
           z == car.z + TruncDiv(Cos(rotation) * speed, 1000)
       IN  /\ car' = [car EXCEPT !.x = x, !.z = z, !.rotY = rotation]
           /\ gameRunningRef' = [gameRunningRef EXCEPT !.speed = speed,
                                                       !.rotation = rotation]
           /\ gameState' = [gameState EXCEPT !.speed = Abs(RoundDiv(speed, 10))]
           /\ currentZone' = Zone_p0(x, z)
           /\ remotePlayersRef' = remotePlayersRef
           /\ cameraView' = CameraBranch(cameraModeRef)
           /\ miniMap' = updateMiniMap_p0
           /\ sent' = SendUpdate([x |-> x, y |-> car.y, z |-> z], rotation, speed)

\* the index of the building the `for` loop of part_000 calls gameOver() for and
\* breaks at, searching from the i-th on; 0 when it reaches the end of the array
RECURSIVE CollisionLoop_p0(_, _, _, _)
CollisionLoop_p0(x, z, b, i) ==
  IF i > Len(b) THEN 0
  ELSE IF ~Exempt(b[i]) /\ Overlaps(b[i], x, z)
       THEN i
       ELSE CollisionLoop_p0(x, z, b, i + 1)

checkCollisions_p0 ==
  IF "car" \notin handles
  THEN UNCHANGED <<gameRunningRef, gameState, localStorage, lastCollision>>
  ELSE LET i == CollisionLoop_p0(car.x, car.z, buildingsDataRef, 1)
       IN  IF i = 0
           THEN /\ lastCollision' = [n |-> 0, first |-> 0]
                /\ UNCHANGED <<gameRunningRef, gameState, localStorage>>
           ELSE /\ gameOver
                /\ lastCollision' = [n |-> 1, first |-> i]

animateUpdate_p0(delta) ==
  /\ mounted
  /\ pc = "idle"
  /\ Running
  /\ updateCar_p0(delta)
  /\ pc' = "collide"
  /\ frameDelta' = delta
  /\ frames' = IF frames < MaxFrames THEN frames + 1 ELSE frames
  /\ netEvent' = Event("frame_p0")
  /\ UNCHANGED <<handles, mounted, localStorage, keysRef, cityVars, lastCollision,
                 initialItem, peerRef, connRef, conns, multiplayer, listeners, acquired,
                 draws, cameraModeRef, hud>>

animateCollide_p0 ==
  /\ pc = "collide"
  /\ checkCollisions_p0
  /\ pc' = "idle"
  /\ frameDelta' = 0
  /\ UNCHANGED <<handles, mounted, currentZone, car, keysRef, cityVars, frames,
                 initialItem, netVars, draws, hudVars>>

-----------------------------------------------------------------------------
(* Inputs *)

\* how often each building loop of generateCityData runs (80, 15, 300, 100, 10, 15
\* and 20 times in the source), and the tree and cloud loops (800 and 50 times)
NumBuildings == 1
NumTrees == 2
NumClouds == 1
\* the traffic-light loops run over -GridHalf..GridHalf (-5..5 in the source)
GridHalf == 1

\* draws for the government loop: (Math.random() - 0.5) * 400 on both axes.  The first
\* is a 60-wide office 30 from both centrelines through the origin, the second is away
\* from the roads and has the house of CitySamples standing in its north-west corner
GovernmentDraws == {[x |-> 30000, z |-> 30000], [x |-> 140000, z |-> 140000]}

\* draws for the tree loop: near a grid line with a bench, near without, and far
TreeDraws ==
  <<[x |-> 5000, z |-> 50000, scale |-> 1000, bench |-> 800, benchRot |-> 1000],
    [x |-> 50000, z |-> 50000, scale |-> 700, bench |-> 100, benchRot |-> 0],
    [x |-> -90000, z |-> 212000, scale |-> 1500, bench |-> 300, benchRot |-> 2000]>>

Repeat(v, n) == [i \in 1..n |-> v]

\* what the Math.random() calls of one generateCityData run return
CitySamples ==
  {[downtown |-> Repeat([x |-> 10000, z |-> -20000, w |-> 30000, h |-> 80000,
                         d |-> 26000], NumBuildings),
    government |-> g,
    residential |-> Repeat([x |-> 105000, z |-> 168000, w |-> 14000, h |-> 9000,
                            d |-> 16000], NumBuildings),
    commercial |-> Repeat([x |-> -700000, z |-> 400000, w |-> 44000, h |-> 24000,
                           d |-> 30000], NumBuildings),
    healthcare |-> Repeat([x |-> -800000, z |-> -750000, isClinic |-> FALSE],
                          NumBuildings),
    education |-> Repeat([x |-> 800000, z |-> -800000, isSchool |-> TRUE], NumBuildings),
    parking |-> Repeat([x |-> 0, z |-> 0], NumBuildings),
    trees |-> [i \in 1..NumTrees |-> TreeDraws[((i - 1) % 3) + 1]],
    clouds |-> Repeat([x |-> 100000, y |-> 250000, z |-> -100000, sx |-> 150000,
                       sy |-> 30000, sz |-> 150000], NumClouds),
    grid |-> GridHalf] :
   g \in [1..NumBuildings -> GovernmentDraws]}

\* what localStorage can hold under the high-score key when the page loads
StoredItems == {<<>>, <<-1>>, <<2>>}

\* frame times: Math.min(getDelta(), 0.1) in ticks of 1/60 s
Deltas == {0, 1, MaxDeltaTicks}

\* the peers' poses that arrive in 'update' messages
RemotePoses ==
  {[pos |-> [x |-> 7, y |-> 0, z |-> 0], rotation |-> 0, speed |-> 0],
   [pos |-> [x |-> 0, y |-> 0, z |-> 0], rotation |-> 6, speed |-> 500]}

\* the messages that arrive: updates, and one of a type the data handler ignores
Messages ==
  {[type |-> "update", payload |-> m] : m \in RemotePoses}
    \cup {[type |-> "hello", payload |-> [pos |-> [x |-> 3, y |-> 0, z |-> 0],
                                          rotation |-> 0, speed |-> 0]]}

-----------------------------------------------------------------------------
(* The driving game, Game.tsx, from the first render *)

\* no connection was made and no message was handled or sent
NoSession ==
  /\ connRef = NoConn
  /\ conns = [c \in ConnIds |-> [state |-> "none", setup |-> FALSE]]
  /\ multiplayer = [peerId |-> "", targetPeerId |-> "", isConnected |-> FALSE,
                    isHost |-> FALSE, status |-> "idle"]
  /\ remotePlayersRef = [p \in {} |-> 0]
  /\ sent = <<>>

Init ==
  /\ handles = {}
  /\ mounted = FALSE
  /\ gameRunningRef = [isStarted |-> FALSE, isGameOver |-> FALSE, score |-> 0,
                       speed |-> 0, rotation |-> 0]
  /\ localStorage \in StoredItems
  /\ gameState = [score |-> 0, isGameOver |-> FALSE, isStarted |-> FALSE,
                  highScore |-> InitialHighScore(localStorage), speed |-> 0]
  /\ currentZone = "Downtown"
  /\ car = [x |-> 0, y |-> 0, z |-> 0, rotY |-> 0]
  /\ keysRef = {}
  /\ buildingsDataRef = <<>>
  /\ windowsDataRef = <<>>
  /\ barriersDataRef = <<>>
  /\ treesDataRef = <<>>
  /\ propsDataRef = <<>>
  /\ cloudsDataRef = <<>>
  /\ trafficLightsDataRef = <<>>
  /\ pc = "idle"
  /\ frameDelta = 0
  /\ frames = 0
  /\ lastCollision = [n |-> 0, first |-> 0]
  /\ initialItem = localStorage
  /\ peerRef = "null"
  /\ NoSession
  /\ listeners = {}
  /\ acquired = {}
  /\ netEvent = Event("none")
  /\ draws = <<>>
  /\ cameraModeRef = "third"
  /\ hud = [cameraMode |-> "third", isMapFullscreen |-> FALSE]
  /\ cameraView = "none"
  /\ miniMap = NoDrawing

Next ==
  \/ \E s \in CitySamples : Mount(s)
  \/ Unmount
  \/ startGame
  \/ \E code \in KeyCodes : handleKeyDown(code)
  \/ \E code \in KeyCodes : handleKeyUp(code)
  \/ \E delta \in Deltas : frames < MaxFrames /\ animateUpdate(delta)
  \/ animateCollide

Spec == Init /\ [][Next]_vars

\* the same component with no key pressed: the effect, its cleanup, the start button
\* and the frames
RemountNext ==
  \/ \E s \in CitySamples : Mount(s)
  \/ Unmount
  \/ startGame
  \/ \E delta \in Deltas : frames < MaxFrames /\ animateUpdate(delta)
  \/ animateCollide

RemountSpec == Init /\ [][RemountNext]_vars

\* the component with peers that connect to it: the effect and its cleanup, the
\* start button, the accelerate key, the frames, and the callbacks of the peer and
\* of the connections it is handed
RelayInit == Init /\ localStorage = <<>>

RelayNext ==
  \/ \E s \in CitySamples : s.government[1].x > 100000 /\ Mount(s)
  \/ Unmount
  \/ startGame
  \/ handleKeyDown("ArrowUp")
  \/ frames < MaxFrames /\ animateUpdate(1)
  \/ animateCollide
  \/ animateIdle
  \/ peerOpen
  \/ \E p \in Peers : peerConnection(p)
  \/ \E c \in ConnIds : connOpen(c)
  \/ \E c \in ConnIds, m \in Messages : connData(c, m)
  \/ \E c \in ConnIds : connClose(c)

RelaySpec == RelayInit /\ [][RelayNext]_vars

-----------------------------------------------------------------------------
(* The driving game mid-session: Init enumerates states of a mounted Game.tsx  *)
(* (a fresh component, or a running session with the car somewhere in the      *)
(* city at some speed and heading with some keys held) and the frame loop and  *)
(* startGame run from there.                                                   *)

CityIs(c) ==
  /\ buildingsDataRef = c.buildings
  /\ windowsDataRef = c.windows
  /\ barriersDataRef = c.barriers
  /\ treesDataRef = c.trees
  /\ propsDataRef = c.props
  /\ cloudsDataRef = c.clouds
  /\ trafficLightsDataRef = c.trafficLights

\* the world of the specification's collision example: one building centred at
\* (100, 0) with half-extent 10 on x and z (set up by hand: addBuilding would move it)
ExampleCity ==
  [EmptyCity EXCEPT !.buildings = <<[x |-> 100000, z |-> 0, w |-> 20000, h |-> 10000,
                                     d |-> 20000, type |-> 1]>>]

DriveCities == {generateCityData(EmptyCity, s) : s \in CitySamples} \cup {ExampleCity}

\* car positions: on the road at the origin and beside it, on the edge of the office
\* at (30, 30) with x on its centre, on the edge of the tower at (70, -80), outside
\* the corner that the office at (140, 140) and the house at (105, 168) form, on the
\* parking lot at (-60, -60), and the example's (100, 0)
DriveCars ==
  {[x |-> 0, z |-> 0], [x |-> -5000, z |-> 3000], [x |-> 30000, z |-> 0],
   [x |-> 55000, z |-> -67000], [x |-> 108700, z |-> 158500],
   [x |-> -60000, z |-> -60000], [x |-> 100000, z |-> 0]}

DriveSpeeds == {-900, -450, -60, -8, 0, 4, 10, 12, 50, 52, 600, 1760, 1800}

DriveRotations == {0, 400}

DriveKeys ==
  {{}, {"ArrowUp"}, {"ArrowDown"}, {"ArrowUp", "ArrowDown"}, {"ArrowLeft"},
   {"ArrowUp", "ArrowLeft"}, {"ArrowDown", "ArrowRight"}, {"ArrowLeft", "ArrowRight"}}

\* the camera mode and the minimap of a session in which no HUD button was pressed:
\* on the start screen the initial values; in a running session what startGame and
\* the frames since have left, `drawing` being what updateMiniMap draws
HudInit(drawing) ==
  /\ hud = [cameraMode |-> "third", isMapFullscreen |-> FALSE]
  /\ cameraModeRef = IF gameRunningRef.isStarted THEN "undefined" ELSE "third"
  /\ cameraView = IF gameRunningRef.isStarted THEN CameraBranch("undefined") ELSE "none"
  /\ miniMap = IF gameRunningRef.isStarted THEN drawing ELSE NoDrawing

\* a mounted component between two frames, before the peer has its id; the draws of
\* the generateCityData call behind it are not kept
MountedInit ==
  /\ handles = Handles
  /\ mounted = TRUE
  /\ pc = "idle"
  /\ frameDelta = 0
  /\ frames = 0
  /\ lastCollision = [n |-> 0, first |-> 0]
  /\ initialItem = localStorage
  /\ peerRef = "live"
  /\ NoSession
  /\ listeners = EffectListeners \cup {"beforeinstallprompt"}
  /\ acquired = {"canvas", "renderer"}
  /\ netEvent = Event("mount")
  /\ draws = <<>>

DriveInit ==
  /\ localStorage = <<>>
  /\ MountedInit
  /\ \E c \in DriveCities : CityIs(c)
  /\ \/ /\ gameRunningRef = [isStarted |-> FALSE, isGameOver |-> FALSE, score |-> 0,
                             speed |-> 0, rotation |-> 0]
        /\ gameState = [score |-> 0, isGameOver |-> FALSE, isStarted |-> FALSE,
                        highScore |-> 0, speed |-> 0]
        /\ car = [x |-> 0, y |-> 0, z |-> 0, rotY |-> 0]
        /\ currentZone = "Downtown"
        /\ keysRef = {}
     \/ \E p \in DriveCars, sp \in DriveSpeeds, rot \in DriveRotations :
        /\ gameRunningRef = [isStarted |-> TRUE, isGameOver |-> FALSE, score |-> 0,
                             speed |-> sp, rotation |-> rot]
        /\ gameState = [score |-> 0, isGameOver |-> FALSE, isStarted |-> TRUE,
                        highScore |-> 0, speed |-> Abs(RoundDiv(sp, 10))]
        /\ car = [x |-> p.x, y |-> GroundY(p.x, p.z), z |-> p.z, rotY |-> rot]
        /\ currentZone = Zone(p.x, p.z)
        /\ keysRef \in DriveKeys
  /\ HudInit(updateMiniMap(FALSE))

DriveNext ==
  \/ startGame
  \/ \E delta \in Deltas : frames < MaxFrames /\ animateUpdate(delta)
  \/ animateCollide

DriveSpec == DriveInit /\ [][DriveNext]_vars

-----------------------------------------------------------------------------
(* The part_000 variant mid-session *)

\* what the Math.random() calls of part_000's generateCityData return: a tower at
\* (45, 45), a house, a plant 30 beside the centreline x = -200, and a parking lot
CitySamples_p0 ==
  {[downtown |-> Repeat([x |-> 45000, z |-> 45000, w |-> 30000, h |-> 70000,
                         d |-> 30000], NumBuildings),
    residential |-> Repeat([x |-> 520000, z |-> 480000, w |-> 20000, h |-> 12000,
                            d |-> 18000], NumBuildings),
    industrial |-> Repeat([x |-> -230000, z |-> -600000, w |-> 60000, h |-> 20000,
                           d |-> 50000], NumBuildings),
    parking |-> Repeat([x |-> 0, z |-> 0], NumBuildings),
    trees |-> [i \in 1..NumTrees |-> TreeDraws[((i - 1) % 3) + 1]],
    clouds |-> Repeat([x |-> 100000, y |-> 250000, z |-> -100000, sx |-> 150000,
                       sy |-> 30000, sz |-> 150000], NumClouds)]}

\* car positions: the origin, short of the tower's south and west faces, on the
\* parking lot, and on the centreline x = -200 short of the plant
TerminalCars ==
  {[x |-> 0, z |-> 0], [x |-> 45000, z |-> 28000], [x |-> 28000, z |-> 45000],
   [x |-> -60000, z |-> -60000], [x |-> -200000, z |-> -687000]}

TerminalSpeeds == {-750, -300, -8, 0, 12, 600, 1490, 1500}

TerminalInit ==
  /\ localStorage \in StoredItems
  /\ MountedInit
  /\ \E s \in CitySamples_p0 : CityIs(generateCityData_p0(EmptyCity, s))
  /\ \/ /\ gameRunningRef = [isStarted |-> FALSE, isGameOver |-> FALSE, score |-> 0,
                             speed |-> 0, rotation |-> 0]
        /\ gameState = [score |-> 0, isGameOver |-> FALSE, isStarted |-> FALSE,
                        highScore |-> InitialHighScore(localStorage), speed |-> 0]
        /\ car = [x |-> 0, y |-> 0, z |-> 0, rotY |-> 0]
        /\ currentZone = "Downtown"
        /\ keysRef = {}
     \/ \E p \in TerminalCars, sp \in TerminalSpeeds, rot \in DriveRotations :
        /\ gameRunningRef = [isStarted |-> TRUE, isGameOver |-> FALSE, score |-> 0,
                             speed |-> sp, rotation |-> rot]
        /\ gameState = [score |-> 0, isGameOver |-> FALSE, isStarted |-> TRUE,
                        highScore |-> InitialHighScore(localStorage),
                        speed |-> Abs(RoundDiv(sp, 10))]
        /\ car = [x |-> p.x, y |-> 0, z |-> p.z, rotY |-> rot]
        /\ currentZone = Zone_p0(p.x, p.z)
        /\ keysRef \in DriveKeys
  /\ HudInit(updateMiniMap_p0)

TerminalNext ==
  \/ startGame
  \/ \E delta \in Deltas : frames < MaxFrames /\ animateUpdate_p0(delta)
  \/ animateCollide_p0

TerminalSpec == TerminalInit /\ [][TerminalNext]_vars

\* the same with the frames of a session that is not running: before the first
\* start and after a collision has ended the session (animate of part_000, lines
\* 752-762, reads as that of Game.tsx)
TerminalLoopNext ==
  \/ TerminalNext
  \/ animateIdle

TerminalLoopSpec == TerminalInit /\ [][TerminalLoopNext]_vars

-----------------------------------------------------------------------------
(* Coasting: a running session of Game.tsx in which neither accelerate nor      *)
(* brake is held.  requestAnimationFrame keeps calling animate and the clock   *)
(* keeps advancing, so frames with a positive delta keep coming.                *)

CoastCars == {[x |-> 0, z |-> 0], [x |-> 30000, z |-> 0]}

CoastSpeeds == {-12, -8, 0, 4, 12}

CoastInit ==
  /\ localStorage = <<>>
  /\ MountedInit
  /\ \E s \in CitySamples : CityIs(generateCityData(EmptyCity, s))
  /\ \E p \in CoastCars, sp \in CoastSpeeds :
        /\ gameRunningRef = [isStarted |-> TRUE, isGameOver |-> FALSE, score |-> 0,
                             speed |-> sp, rotation |-> 0]
        /\ gameState = [score |-> 0, isGameOver |-> FALSE, isStarted |-> TRUE,
                        highScore |-> 0, speed |-> Abs(RoundDiv(sp, 10))]
        /\ car = [x |-> p.x, y |-> GroundY(p.x, p.z), z |-> p.z, rotY |-> 0]
        /\ currentZone = Zone(p.x, p.z)
        /\ keysRef \in {{}, {"ArrowLeft", "ArrowRight"}}
  /\ HudInit(updateMiniMap(FALSE))

\* a frame with delta 0 moves the car on at undiminished speed, so such frames are
\* followed only among the first MaxFrames of a run
CoastNext ==
  \/ \E delta \in Deltas : (delta = 0 => frames < MaxFrames) /\ animateUpdate(delta)
  \/ animateCollide

CoastSpec ==
  /\ CoastInit
  /\ [][CoastNext]_vars
  /\ WF_vars(\E delta \in Deltas \ {0} : animateUpdate(delta))
  /\ WF_vars(animateCollide)

-----------------------------------------------------------------------------
(* Accelerating from the start: the accelerate key is held when the session is *)
(* started and stays held, and every frame takes the same time.                 *)

\* the frame time of the run, in ticks: 1/60 s
AccelDelta == 1
\* how far along z the run is followed, in thousandths
AccelRange == 40000

AccelInit ==
  /\ localStorage = <<>>
  /\ MountedInit
  /\ \E s \in CitySamples : CityIs(generateCityData(EmptyCity, s))
  /\ gameRunningRef = [isStarted |-> FALSE, isGameOver |-> FALSE, score |-> 0,
                       speed |-> 0, rotation |-> 0]
  /\ gameState = [score |-> 0, isGameOver |-> FALSE, isStarted |-> FALSE,
                  highScore |-> 0, speed |-> 0]
  /\ car = [x |-> 0, y |-> 0, z |-> 0, rotY |-> 0]
  /\ currentZone = "Downtown"
  /\ keysRef = {"ArrowUp"}
  /\ HudInit(updateMiniMap(FALSE))

AccelNext ==
  \/ startGame
  \/ car.z < AccelRange /\ animateUpdate(AccelDelta)
  \/ animateCollide

AccelSpec == AccelInit /\ [][AccelNext]_vars

-----------------------------------------------------------------------------
(* The lobby: a mounted component on its start screen, the peers that connect   *)
(* to it and the connections it opens, with the errors they report.             *)

LobbyInit ==
  /\ localStorage = <<>>
  /\ MountedInit
  /\ \E s \in CitySamples : CityIs(generateCityData(EmptyCity, s))
  /\ gameRunningRef = [isStarted |-> FALSE, isGameOver |-> FALSE, score |-> 0,
                       speed |-> 0, rotation |-> 0]
  /\ gameState = [score |-> 0, isGameOver |-> FALSE, isStarted |-> FALSE,
                  highScore |-> 0, speed |-> 0]
  /\ car = [x |-> 0, y |-> 0, z |-> 0, rotY |-> 0]
  /\ currentZone = "Downtown"
  /\ keysRef = {}
  /\ HudInit(updateMiniMap(FALSE))

LobbyNext ==
  \/ peerOpen
  \/ \E p \in Peers \cup {""} : setTargetPeerId(p)
  \/ connectToPeer
  \/ \E p \in Peers : peerConnection(p)
  \/ \E c \in ConnIds : connOpen(c)
  \/ \E c \in ConnIds : connError(c)
  \/ \E c \in ConnIds : connClose(c)

LobbySpec == LobbyInit /\ [][LobbyNext]_vars

-----------------------------------------------------------------------------
(* The null checks: updateCar, checkCollisions and updateRemotePlayer called    *)
(* with each set of handles.  (The mount effect assigns the four refs before    *)
(* it registers a callback or starts animate, and nothing clears them, so the   *)
(* component itself calls the three with all handles set.)                      *)

\* the car on the edge of the office at (30, 30), moving
GuardInit ==
  /\ localStorage = <<>>
  /\ handles \in SUBSET Handles
  /\ mounted = TRUE
  /\ pc = "idle"
  /\ frameDelta = 0
  /\ frames = 0
  /\ lastCollision = [n |-> 0, first |-> 0]
  /\ initialItem = localStorage
  /\ \E s \in CitySamples : CityIs(generateCityData(EmptyCity, s))
  /\ gameRunningRef = [isStarted |-> TRUE, isGameOver |-> FALSE, score |-> 0,
                       speed |-> 600, rotation |-> 0]
  /\ gameState = [score |-> 0, isGameOver |-> FALSE, isStarted |-> TRUE,
                  highScore |-> 0, speed |-> 60]
  /\ car = [x |-> 30000, y |-> 0, z |-> 0, rotY |-> 0]
  /\ currentZone = "Downtown"
  /\ keysRef \in {{}, {"ArrowUp", "ArrowLeft"}}
  /\ peerRef = "live"
  /\ connRef = <<"p1", "in">>
  /\ conns = [c \in ConnIds |->
                IF c[2] = "in" THEN [state |-> "open", setup |-> TRUE]
                ELSE [state |-> "none", setup |-> FALSE]]
  /\ multiplayer = [peerId |-> "me", targetPeerId |-> "", isConnected |-> TRUE,
                    isHost |-> TRUE, status |-> "connected"]
  /\ remotePlayersRef \in
       {[p \in {} |-> 0],
        [p \in {"p1"} |-> [mesh |-> [x |-> 0, y |-> 0, z |-> 0, rotY |-> 0],
                           targetPos |-> [x |-> 7, y |-> 0, z |-> 0],
                           targetRot |-> 0]]}
  /\ sent = <<>>
  /\ listeners = EffectListeners \cup {"beforeinstallprompt"}
  /\ acquired = {"canvas", "renderer"}
  /\ netEvent = Event("connection")
  /\ draws = <<>>
  /\ HudInit(updateMiniMap(FALSE))

GuardNext ==
  \/ frames < MaxFrames /\ animateUpdate(1)
  \/ animateCollide
  \/ \E c \in ConnIds, m \in Messages : connData(c, m)

GuardSpec == GuardInit /\ [][GuardNext]_vars

-----------------------------------------------------------------------------
(* Sessions of either file, one after the other, on a page that loaded any      *)
(* stored high score: part_000 mid-session as above, and Game.tsx from its       *)
(* start screen with the accelerate key held.  The frames are those of the file *)
(* whose generateCityData made the city.                                         *)

\* the city is Game.tsx's: part_000 generates no traffic lights
FromGameTsx == Len(trafficLightsDataRef) > 0

SessionsInit ==
  \/ TerminalInit
  \/ /\ localStorage \in StoredItems
     /\ MountedInit
     /\ \E s \in CitySamples : CityIs(generateCityData(EmptyCity, s))
     /\ gameRunningRef = [isStarted |-> FALSE, isGameOver |-> FALSE, score |-> 0,
                          speed |-> 0, rotation |-> 0]
     /\ gameState = [score |-> 0, isGameOver |-> FALSE, isStarted |-> FALSE,
                     highScore |-> InitialHighScore(localStorage), speed |-> 0]
     /\ car = [x |-> 0, y |-> 0, z |-> 0, rotY |-> 0]
     /\ currentZone = "Downtown"
     /\ keysRef = {"ArrowUp"}
     /\ HudInit(NoDrawing)

SessionsNext ==
  \/ startGame
  \/ animateIdle
  \/ \E delta \in Deltas : frames < MaxFrames /\ FromGameTsx /\ animateUpdate(delta)
  \/ FromGameTsx /\ animateCollide
  \/ \E delta \in Deltas : frames < MaxFrames /\ ~FromGameTsx /\ animateUpdate_p0(delta)
  \/ ~FromGameTsx /\ animateCollide_p0

SessionsSpec == SessionsInit /\ [][SessionsNext]_vars

-----------------------------------------------------------------------------
(* The HUD: Game.tsx from its start screen, with the start button, the camera    *)
(* toggle, the minimap's fullscreen button, the accelerate key and the frames.   *)

HudSpecInit ==
  /\ localStorage = <<>>
  /\ MountedInit
  /\ \E s \in CitySamples : CityIs(generateCityData(EmptyCity, s))
  /\ gameRunningRef = [isStarted |-> FALSE, isGameOver |-> FALSE, score |-> 0,
                       speed |-> 0, rotation |-> 0]
  /\ gameState = [score |-> 0, isGameOver |-> FALSE, isStarted |-> FALSE,
                  highScore |-> 0, speed |-> 0]
  /\ car = [x |-> 0, y |-> 0, z |-> 0, rotY |-> 0]
  /\ currentZone = "Downtown"
  /\ keysRef = {}
  /\ HudInit(NoDrawing)

HudNext ==
  \/ startGame
  \/ handleKeyDown("ArrowUp")
  \/ \E mode \in CameraModes : setCameraMode(mode)
  \/ toggleMapFullscreen
  \/ frames < MaxFrames /\ animateUpdate(1)
  \/ animateCollide

HudSpec == HudSpecInit /\ [][HudNext]_vars

-----------------------------------------------------------------------------
(* Stalls: Game.tsx at the origin of a generated city, on the start screen or   *)
(* in a running session, with frames that come any time after the previous one *)
(* (the tab was hidden, the page was busy, the start button was pressed late).  *)

StallInit ==
  /\ localStorage = <<>>
  /\ MountedInit
  /\ \E s \in CitySamples : CityIs(generateCityData(EmptyCity, s))
  /\ car = [x |-> 0, y |-> 0, z |-> 0, rotY |-> 0]
  /\ currentZone = "Downtown"
  /\ \/ /\ gameRunningRef = [isStarted |-> FALSE, isGameOver |-> FALSE, score |-> 0,
                             speed |-> 0, rotation |-> 0]
        /\ gameState = [score |-> 0, isGameOver |-> FALSE, isStarted |-> FALSE,
                        highScore |-> 0, speed |-> 0]
        /\ keysRef \in {{}, {"ArrowUp"}}
     \/ \E sp \in DriveSpeeds :
        /\ gameRunningRef = [isStarted |-> TRUE, isGameOver |-> FALSE, score |-> 0,
                             speed |-> sp, rotation |-> 0]
        /\ gameState = [score |-> 0, isGameOver |-> FALSE, isStarted |-> TRUE,
                        highScore |-> 0, speed |-> Abs(RoundDiv(sp, 10))]
        /\ keysRef \in DriveKeys
  /\ HudInit(updateMiniMap(FALSE))

StallNext ==
  \/ startGame
  \* clock.getDelta() in ticks of 1/60 s: up to ten seconds
  \/ \E e \in {0, 1, MaxDeltaTicks, MaxDeltaTicks + 1, 600} :
        frames < MaxFrames /\ animateUpdate(FrameDelta(e))
  \/ animateCollide

StallSpec == StallInit /\ [][StallNext]_vars

-----------------------------------------------------------------------------
(* Exempt entities: a running session of either file over an array in which     *)
(* exempt entities come before a building.  (generateCityData pushes its only   *)
(* exempt entities, the parking lots, last, so this array is set up by hand.)   *)
(* A run stays with the file whose frame it started with.                       *)

\* a parking lot (type 3, 0.5 high) at the origin, a slab of type 1 that is 0.5 high,
\* a kiosk of type 3 that is 5 high, and a house whose box reaches over the lot's
\* and the slab's
ExemptCity ==
  [EmptyCity EXCEPT !.buildings =
     <<[x |-> 0, z |-> 0, w |-> 80000, h |-> 500, d |-> 100000, type |-> 3],
       [x |-> 60000, z |-> 0, w |-> 40000, h |-> 500, d |-> 40000, type |-> 1],
       [x |-> -60000, z |-> 0, w |-> 20000, h |-> 5000, d |-> 20000, type |-> 3],
       [x |-> 40000, z |-> 30000, w |-> 20000, h |-> 10000, d |-> 20000, type |-> 1]>>]

\* car positions: on the lot, on the slab, on the kiosk, where lot, slab and house
\* overlap, on the house alone, and clear of all four
ExemptCars ==
  {[x |-> -20000, z |-> 0], [x |-> 70000, z |-> 0], [x |-> -60000, z |-> 0],
   [x |-> 40000, z |-> 20000], [x |-> 45000, z |-> 35000], [x |-> 100000, z |-> 100000]}

ExemptInit ==
  /\ localStorage = <<>>
  /\ MountedInit
  /\ CityIs(ExemptCity)
  /\ \E p \in ExemptCars, sp \in {0, 600} :
        /\ gameRunningRef = [isStarted |-> TRUE, isGameOver |-> FALSE, score |-> 0,
                             speed |-> sp, rotation |-> 0]
        /\ gameState = [score |-> 0, isGameOver |-> FALSE, isStarted |-> TRUE,
                        highScore |-> 0, speed |-> Abs(RoundDiv(sp, 10))]
        /\ car = [x |-> p.x, y |-> 0, z |-> p.z, rotY |-> 0]
        /\ currentZone = "Downtown"
        /\ keysRef \in {{}, {"ArrowUp"}}
  /\ HudInit(updateMiniMap(FALSE))

ExemptNext ==
  \/ \E delta \in Deltas :
        frames < MaxFrames /\ netEvent.kind # "frame_p0" /\ animateUpdate(delta)
  \/ netEvent.kind = "frame" /\ animateCollide
  \/ \E delta \in Deltas :
        frames < MaxFrames /\ netEvent.kind # "frame" /\ animateUpdate_p0(delta)
  \/ netEvent.kind = "frame_p0" /\ animateCollide_p0

ExemptSpec == ExemptInit /\ [][ExemptNext]_vars

-----------------------------------------------------------------------------
(* Placement: the mount effect's generateCityData call with every loop drawing  *)
(* the same candidate position, for candidates on, beside and between the grid   *)
(* lines; the sizes are those of CitySamples.                                    *)

\* candidate coordinates: on a grid line, one thousandth and 29.999, 30 and 30.001
\* from one on either side, and midway between two
Candidates ==
  {-230000, -200000, -170000, -100000, -30001, -30000, -29999, -1, 0, 1, 29999, 30000,
   30001, 100000, 170000, 170001, 200000, 229999}

PlacementSamples ==
  LET At(b, x, z) == [i \in 1..Len(b) |-> [b[i] EXCEPT !.x = x, !.z = z]]
  IN  {[s EXCEPT !.downtown = At(@, x, z), !.government = At(@, x, z),
                 !.residential = At(@, x, z), !.commercial = At(@, x, z),
                 !.healthcare = At(@, x, z), !.education = At(@, x, z),
                 !.parking = At(@, x, z)] :
       s \in CitySamples, x \in Candidates, z \in Candidates}

PlacementNext ==
  \/ \E s \in PlacementSamples : Mount(s)
  \/ Unmount

PlacementSpec == RelayInit /\ [][PlacementNext]_vars

-----------------------------------------------------------------------------
(* Properties *)

\* a step of animate that ran updateCar, and one that ran checkCollisions
UpdateStep == pc = "idle" /\ pc' = "collide"
CollideStep == pc = "collide" /\ pc' = "idle"

\* C1: in Game.tsx the stored speed lies in [-CAR_MAX_SPEED / 2, CAR_MAX_SPEED] after
\* every updateCar call and after every checkCollisions call, whatever keys are held,
\* whatever the frame delta (0 to 0.1 s) and however many bounces happened
C1_SpeedInRange ==
  /\ gameRunningRef.speed >= -(CAR_MAX_SPEED \div 2)
  /\ gameRunningRef.speed <= CAR_MAX_SPEED

\* a bounce at full forward speed has left the speed on the lower end of the range
C1_Witness ==
  /\ pc = "idle"
  /\ frames > 0
  /\ lastCollision.n = 1
  /\ gameRunningRef.speed = -(CAR_MAX_SPEED \div 2)

\* what startGame leaves behind
StartedAtOrigin ==
  /\ car = [x |-> 0, y |-> 0, z |-> 0, rotY |-> 0]
  /\ gameRunningRef = [isStarted |-> TRUE, isGameOver |-> FALSE, score |-> 0,
                       speed |-> 0, rotation |-> 0]
  /\ gameState.score = 0
  /\ gameState.speed = 0
  /\ gameState.isStarted
  /\ ~gameState.isGameOver

\* C2: startGame, from a session never started, running or over, with the car at any
\* position, heading and speed, leaves the car at the origin with heading 0, speed 0,
\* score 0, isStarted true and isGameOver false.  (Between two frames startGame is the
\* only handler of this specification, so a step from "idle" to "idle" is a startGame.)
C2_StartGameResets == [][(pc = "idle" /\ pc' = "idle") => StartedAtOrigin']_vars

\* startGame has restarted a session that a collision had ended: the storage holds the
\* 0 that only gameOver writes, and no frame has run since
C2_Witness ==
  /\ StartedAtOrigin
  /\ frames = 0
  /\ localStorage = <<0>>
  /\ lastCollision.n = 1

\* the session flags of a session over
SessionOver == gameRunningRef.isGameOver /\ ~gameRunningRef.isStarted

\* C3: in Game.tsx no collision ends the session: checkCollisions answers every overlap
\* with a bounce and nothing calls gameOver, so isGameOver is never true and the
\* session a collision happened in is still running
C3_CollisionsNeverEndSession ==
  /\ ~gameRunningRef.isGameOver
  /\ ~gameState.isGameOver
  /\ (frames > 0 /\ lastCollision.n > 0 => Running)

\* the car has bounced off a government office (type 7) and the session runs on
C3_Witness ==
  /\ pc = "idle"
  /\ frames > 0
  /\ lastCollision.n = 1
  /\ buildingsDataRef[lastCollision.first].type = 7
  /\ Running

\* C3 as stated: a frame of a running session in which the car collided has moved the
\* session to game-over (isGameOver true, isStarted false)
C3_CollisionEndsSession ==
  (pc = "idle" /\ frames > 0 /\ lastCollision.n > 0) => SessionOver

\* the high score the storage item yields
StoredHighScore == InitialHighScore(localStorage)

\* C4: gameOver with session score V and stored high score H stores exactly V when
\* V > H and leaves H stored when V <= H; the high score on screen follows
C4_GameOverStoresMax ==
  [][(~gameRunningRef.isGameOver /\ gameRunningRef.isGameOver') =>
       /\ localStorage' # <<>>
       /\ gameState.score > StoredHighScore => StoredHighScore' = gameState.score
       /\ gameState.score <= StoredHighScore => StoredHighScore' = StoredHighScore
       /\ gameState.highScore' = StoredHighScore']_vars

\* a session of score 0 has ended on a page that had loaded a stored -1: 0 is stored
C4_Witness ==
  /\ SessionOver
  /\ initialItem = <<-1>>
  /\ gameState.score = 0
  /\ localStorage = <<0>>
  /\ gameState.highScore = 0

\* C5: a bounce sets the speed to -0.5 times what it was (to the model's resolution:
\* twice the new speed differs from minus the old by under one thousandth), and on x
\* and on z the car's distance from the centre of the building struck grows by the
\* push of 0.5, also where the car is exactly on the centre's coordinate
C5_BounceHalvesAndPushesOut ==
  [][(CollideStep /\ lastCollision'.n > 0) =>
       LET b == buildingsDataRef[lastCollision'.first]
       IN  /\ Abs(2 * gameRunningRef'.speed + gameRunningRef.speed) <= 1
           /\ Abs(car'.x - b.x) = Abs(car.x - b.x) + 500
           /\ Abs(car'.z - b.z) = Abs(car.z - b.z) + 500
           /\ Abs(car'.x - b.x) > Abs(car.x - b.x)
           /\ Abs(car'.z - b.z) > Abs(car.z - b.z)]_vars

\* a bounce has pushed a moving car that was exactly on the building's centre x
C5_Witness ==
  /\ pc = "idle"
  /\ frames > 0
  /\ lastCollision.n = 1
  /\ gameRunningRef.speed # 0
  /\ Abs(car.x - buildingsDataRef[lastCollision.first].x) = 500

\* the buildings checkCollisions can respond to with the car at (x, z)
Hits(x, z) ==
  {i \in 1..Len(buildingsDataRef) :
     ~Exempt(buildingsDataRef[i]) /\ Overlaps(buildingsDataRef[i], x, z)}

\* C6: one checkCollisions call applies its response at most once, however many
\* buildings the car overlaps, and to the first overlapping building of the array
\* that is not exempt, nearest or not; a car overlapping any gets exactly one response
C6_OneResponsePerFrame ==
  [][CollideStep =>
       LET hits == Hits(car.x, car.z)
       IN  IF hits = {}
           THEN /\ lastCollision'.n = 0
                /\ car' = car
                /\ gameRunningRef' = gameRunningRef
           ELSE /\ lastCollision'.n = 1
                /\ \A i \in hits : lastCollision'.first <= i
                /\ lastCollision'.first \in hits
                /\ Abs(car'.x - car.x) = 500
                /\ Abs(car'.z - car.z) = 500]_vars

\* the car has bounced once, off the first of two buildings it had driven into, and
\* is still inside the later one, whose centre is by far the nearer
C6_Witness ==
  /\ pc = "idle"
  /\ frames > 0
  /\ lastCollision.n = 1
  /\ \E j \in Hits(car.x, car.z) :
        /\ j > lastCollision.first
        /\ Abs(car.x - buildingsDataRef[j].x) + Abs(car.z - buildingsDataRef[j].z) + 2000
             < Abs(car.x - buildingsDataRef[lastCollision.first].x)
               + Abs(car.z - buildingsDataRef[lastCollision.first].z)

\* neither the accelerate nor the brake input is held
Coasting ==
  /\ ~Held(keysRef, "ArrowUp", "KeyW")
  /\ ~Held(keysRef, "ArrowDown", "KeyS")

\* C7: in a frame of positive delta with neither accelerate nor brake held and a
\* speed other than 0, updateCar leaves |speed| strictly smaller; a speed of 0 stays
\* 0; and while such frames keep coming the speed ends at exactly 0 for good
C7_CoastingStops ==
  /\ [][(UpdateStep /\ Coasting) =>
          /\ (gameRunningRef.speed # 0 /\ frameDelta' > 0 =>
                Abs(gameRunningRef'.speed) < Abs(gameRunningRef.speed))
          /\ (gameRunningRef.speed = 0 => gameRunningRef'.speed = 0)
          /\ (Abs(gameRunningRef'.speed) < 5 => gameRunningRef'.speed = 0)]_vars
  /\ <>[](gameRunningRef.speed = 0)

\* a car that started on the centreline has rolled forward and come to rest
C7_Witness ==
  /\ pc = "idle"
  /\ gameRunningRef.speed = 0
  /\ car.x = 0
  /\ car.z > 0
  /\ lastCollision.n = 0

\* C7 as stated: every frame with neither accelerate nor brake held and a speed other
\* than 0 leaves |speed| strictly smaller
C7_EveryCoastingFrameSlows ==
  [][(UpdateStep /\ Coasting /\ gameRunningRef.speed # 0) =>
       Abs(gameRunningRef'.speed) < Abs(gameRunningRef.speed)]_vars

\* C8: when updateCar's speed after the acceleration / friction step is at most 0.01
\* in magnitude, the frame leaves the heading as it was, whichever steer keys are held
C8_NoSteeringWhenSlow ==
  [][(UpdateStep /\ Abs(Longitudinal(keysRef, gameRunningRef.speed, frameDelta')) <= 10) =>
       /\ gameRunningRef'.rotation = gameRunningRef.rotation
       /\ car'.rotY = gameRunningRef.rotation]_vars

\* updateCar has run with steer-left alone held on a car creeping at 0.01 or less
C8_Witness ==
  /\ pc = "collide"
  /\ keysRef = {"ArrowLeft"}
  /\ gameRunningRef.speed # 0
  /\ Abs(gameRunningRef.speed) <= 10

\* C9 as stated: with only accelerate held from startGame on and a fixed frame time,
\* from frame to frame (through updateCar and through checkCollisions) z never
\* decreases, and grows in an updateCar that leaves a positive speed, and the speed
\* never decreases and never exceeds CAR_MAX_SPEED
C9_AcceleratingAdvances ==
  [][(UpdateStep \/ CollideStep) =>
       /\ car'.z >= car.z
       /\ (UpdateStep /\ gameRunningRef'.speed > 0 => car'.z > car.z)
       /\ gameRunningRef'.speed >= gameRunningRef.speed
       /\ gameRunningRef'.speed <= CAR_MAX_SPEED]_vars

\* C10: a generateCityData call that finds the collections populated (the mount
\* effect running again) leaves buildings, windows, barriers, trees, props, clouds
\* and traffic lights exactly as the first call left them
C10_GenerationIdempotent ==
  [][(~mounted /\ mounted' /\ Len(buildingsDataRef) > 0) => UNCHANGED cityVars]_vars

\* the effect has run a second time: a started session whose frame had lifted the
\* car onto the road has a new car at height 0, and the city is as generated
C10_Witness ==
  /\ mounted
  /\ frames > 0
  /\ car = [x |-> 0, y |-> 0, z |-> 0, rotY |-> 0]
  /\ Len(buildingsDataRef) = 7 * NumBuildings
  /\ Len(cloudsDataRef) = NumClouds

\* connRef.current && connRef.current.open
ConnRefOpen == connRef # NoConn /\ conns[connRef].state = "open"

\* the 'update' message that carries the car's pose and speed of the given state
PoseMessage(c, r) ==
  [to |-> connRef, type |-> "update",
   payload |-> [pos |-> [x |-> c.x, y |-> c.y, z |-> c.z], rotation |-> r.rotation,
                speed |-> r.speed]]

\* C11: a frame of a running session sends exactly one 'update' message, carrying
\* the car's position, heading and speed as that frame's updateCar left them, to the
\* connection connRef holds if that connection is open, and nothing otherwise; a
\* frame of a session that is not running sends nothing
C11_RunningFrameSends ==
  [][/\ UpdateStep =>
          sent' = IF ConnRefOpen THEN <<PoseMessage(car', gameRunningRef')>> ELSE <<>>
     /\ (~Running /\ ~Running' /\ netEvent'.kind = "frame") => sent' = <<>>]_vars

\* two peers have connected and both connections are open; a frame of a session with
\* the accelerate key held has sent the moving car's pose to the second of them
C11_Witness ==
  /\ pc = "collide"
  /\ Len(sent) = 1
  /\ sent[1].to = <<"p2", "in">>
  /\ conns[<<"p1", "in">>].state = "open"
  /\ sent[1].payload.speed > 0
  /\ sent[1].payload.pos.z > 0

\* C11 as stated: every frame of the animation loop that finds the data connection
\* open has sent one 'update' message
C11_EveryOpenFrameSends ==
  (netEvent.kind = "frame" /\ ConnRefOpen) => Len(sent) = 1

\* the target poses of the table, by peer
Targets(players) ==
  [q \in DOMAIN players |->
     [targetPos |-> players[q].targetPos, targetRot |-> players[q].targetRot]]

\* C12: once an 'update' message from peer p is handled, the table has an entry for p
\* whose target position and target heading are the message's, whatever p sent before,
\* and the other peers' entries are as they were; a message of another type changes
\* nothing; and a frame leaves every entry's target pose as it was
C12_LastWriteWins ==
  [][/\ netEvent'.kind = "data" =>
          LET id == netEvent'.conn[1]
              m == netEvent'.msg
          IN  IF m.type = "update"
              THEN /\ id \in DOMAIN remotePlayersRef'
                   /\ remotePlayersRef'[id].targetPos = m.payload.pos
                   /\ remotePlayersRef'[id].targetRot = m.payload.rotation
                   /\ DOMAIN remotePlayersRef' = DOMAIN remotePlayersRef \cup {id}
                   /\ \A q \in DOMAIN remotePlayersRef \ {id} :
                         remotePlayersRef'[q] = remotePlayersRef[q]
              ELSE remotePlayersRef' = remotePlayersRef
     /\ netEvent'.kind = "frame" =>
          Targets(remotePlayersRef') = Targets(remotePlayersRef)]_vars

\* peer p1's second pose has replaced its first, towards which a frame had already
\* moved its car, while peer p2's entry stands
C12_Witness ==
  /\ netEvent.kind = "data"
  /\ netEvent.conn[1] = "p1"
  /\ DOMAIN remotePlayersRef = {"p1", "p2"}
  /\ remotePlayersRef["p1"].mesh.x = 1
  /\ remotePlayersRef["p1"].targetPos.x = 0
  /\ remotePlayersRef["p1"].targetRot = 6
  /\ remotePlayersRef["p2"].targetPos.x = 7

\* C13: when a connection of peer p closes, p has no entry in the table afterwards;
\* and an entry leaves the table only in a step in which a connection of its peer goes
\* from open to closed (its 'close' event, or the cleanup destroying the peer): no
\* frame, no message from any peer, no other handler removes it
C13_RemovedOnlyOnClose ==
  [][/\ netEvent'.kind = "close" => netEvent'.conn[1] \notin DOMAIN remotePlayersRef'
     /\ \A id \in DOMAIN remotePlayersRef :
          id \notin DOMAIN remotePlayersRef' =>
            \E c \in ConnIds : /\ c[1] = id
                                /\ conns[c].state = "open"
                                /\ conns'[c].state = "closed"]_vars

\* peer p2's connection has closed and p2 has no entry; the entry of p1, whose car a
\* frame has moved and whose connection is still open, stands
C13_Witness ==
  /\ netEvent.kind = "close"
  /\ netEvent.conn = <<"p2", "in">>
  /\ DOMAIN remotePlayersRef = {"p1"}
  /\ remotePlayersRef["p1"].mesh.x = 1
  /\ conns[<<"p1", "in">>].state = "open"
  /\ frames = MaxFrames

\* C14 as stated: after the component is unmounted nothing it acquired at mount is
\* still held: no window listener it registered remains, the peer is destroyed, the
\* canvas is out of the container and the renderer is disposed
C14_ReleasedAfterUnmount ==
  (~mounted /\ netEvent.kind = "unmount") =>
     /\ listeners = {}
     /\ acquired = {}
     /\ peerRef = "destroyed"

\* C15: updateCar called with the car or the camera handle null changes neither speed
\* nor heading nor the car nor the zone nor the HUD speed nor any remote player's car,
\* and sends nothing; checkCollisions called with the car handle null changes nothing;
\* a pose received with the scene handle null leaves the table as it was
C15_NullHandlesShortCircuit ==
  [][/\ (UpdateStep /\ ~({"car", "camera"} \subseteq handles)) =>
          /\ UNCHANGED <<gameRunningRef, gameState, car, currentZone, remotePlayersRef>>
          /\ sent' = <<>>
     /\ (CollideStep /\ "car" \notin handles) =>
          UNCHANGED <<gameRunningRef, gameState, car>>
     /\ (netEvent'.kind = "data" /\ "scene" \notin handles) =>
          remotePlayersRef' = remotePlayersRef]_vars

\* with the scene, camera and car handles null, a frame has run on a car that stands
\* inside the office's collision box at speed 0.6 with accelerate held, and a pose
\* has arrived since: the car has not moved or bounced, and the table is empty
C15_Witness ==
  /\ handles = {"renderer"}
  /\ frames > 0
  /\ pc = "idle"
  /\ netEvent.kind = "data"
  /\ netEvent.msg.type = "update"
  /\ keysRef = {"ArrowUp", "ArrowLeft"}
  /\ car = [x |-> 30000, y |-> 0, z |-> 0, rotY |-> 0]
  /\ gameRunningRef.speed = 600
  /\ buildingsDataRef[2].x = 30000
  /\ DOMAIN remotePlayersRef = {}

\* C16 as stated: once a connection has reported an error the multiplayer status is
\* 'error', and a connection attempt starts in a connectToPeer call only
C16_ErrorSurfacesNoRetry ==
  [][/\ netEvent'.kind = "error" => multiplayer'.status = "error"
     /\ (\E c \in ConnIds : c[2] = "out" /\ conns[c].state = "none"
                              /\ conns'[c].state = "connecting")
          => netEvent'.kind = "connectToPeer"]_vars

\* the distance from v to the nearest multiple of 200
GridDistance(v) ==
  LET m == v % 200000 IN IF m <= 100000 THEN m ELSE 200000 - m

\* the road strip is the PlaneGeometry of createRoads, 20 wide on its grid line
RoadHalfWidth == 10000

\* the interval centre +/- size / 2 does not reach into a road strip (size < 200)
OffRoad(centre, size) == 2 * GridDistance(centre) - size >= 2 * RoadHalfWidth

\* C17: once the city is generated, no building's footprint (centre +/- half its
\* scale on x and on z) overlaps a road strip, the band within 10 of a grid line
C17_FootprintsOffRoads ==
  \A i \in 1..Len(buildingsDataRef) :
     /\ OffRoad(buildingsDataRef[i].x, buildingsDataRef[i].w)
     /\ OffRoad(buildingsDataRef[i].z, buildingsDataRef[i].d)

\* the (x, z) the loops of generateCityData passed to addBuilding, in call order
CandidatesOf(s) ==
  s.downtown \o s.government \o s.residential \o s.commercial \o s.healthcare
  \o s.education \o s.parking

\* stored coordinate `st` of candidate coordinate v: at least 30 from the nearest
\* grid line; v itself when v was at least 30 away; otherwise farther from the grid
\* line v was near than v was, and on the same side of it
Placed(v, st) ==
  /\ GridDistance(st) >= 30000
  /\ GridDistance(v) >= 30000 => st = v
  /\ st # v => /\ Abs(st - GridLine(v)) > Abs(v - GridLine(v))
               /\ v > GridLine(v) => st > GridLine(v)
               /\ v < GridLine(v) => st < GridLine(v)

\* C18: addBuilding stores, for every candidate (x, z), a centre at least 30 from
\* the nearest grid line on x and on z; a coordinate already 30 away is stored
\* unchanged and a displaced one is moved away from its grid line, never across it
C18_StoredCentreClearOfGrid ==
  DOMAIN draws # {} =>
    /\ Len(buildingsDataRef) = Len(CandidatesOf(draws))
    /\ \A i \in 1..Len(buildingsDataRef) :
          /\ Placed(CandidatesOf(draws)[i].x, buildingsDataRef[i].x)
          /\ Placed(CandidatesOf(draws)[i].z, buildingsDataRef[i].z)

\* a city generated from a candidate 29.999 east of one grid line and exactly on
\* another: the first building stands 89.999 east of the first and 60 south of the
\* second (the side addBuilding takes when x > gridX is false)
C18_Witness ==
  /\ DOMAIN draws # {}
  /\ draws.downtown[1].x = 29999 /\ draws.downtown[1].z = 200000
  /\ buildingsDataRef[1].x = 89999 /\ buildingsDataRef[1].z = 140000

\* the entities whose collision box holds (x, z)
Over(x, z) ==
  {i \in 1..Len(buildingsDataRef) : Overlaps(buildingsDataRef[i], x, z)}

\* those of them that are neither of type 3 nor less than 1 high
Solid(x, z) ==
  {i \in Over(x, z) : buildingsDataRef[i].type # 3 /\ buildingsDataRef[i].h >= 1000}

\* C19: checkCollisions (of either file) never responds because of an entity of
\* type 3 or of height below 1: the entity it responds to is neither; a car that
\* overlaps only such entities keeps its speed and position; and a car that also
\* overlaps a collidable building gets the response to the first such building,
\* whatever exempt entities come before it in the array
C19_ExemptNeverCollide ==
  [][CollideStep =>
       /\ lastCollision'.n > 0 => lastCollision'.first \in Solid(car.x, car.z)
       /\ Solid(car.x, car.z) = {} =>
            /\ lastCollision'.n = 0
            /\ car' = car
            /\ gameRunningRef' = gameRunningRef
       /\ Solid(car.x, car.z) # {} =>
            /\ lastCollision'.n = 1
            /\ \A i \in Solid(car.x, car.z) : lastCollision'.first <= i]_vars

\* a frame of Game.tsx has bounced the car off the house, the fourth entity, and the
\* car still stands on the lot and on the slab, the first and the second
C19_Witness ==
  /\ pc = "idle"
  /\ frames > 0
  /\ netEvent.kind = "frame"
  /\ lastCollision = [n |-> 1, first |-> 4]
  /\ {1, 2} \subseteq Over(car.x, car.z)
  /\ Exempt(buildingsDataRef[1]) /\ Exempt(buildingsDataRef[2])

\* the reference of C20, in thousandths per second: 0.6 forward for accelerate,
\* against it 2.4 for brake above speed 0.05 and 0.6 for brake at or below it
ReferenceNet(accelerate, brake, speed) ==
  (IF accelerate THEN 600 ELSE 0)
  - (IF brake /\ speed > 50 THEN 2400 ELSE IF brake THEN 600 ELSE 0)

\* speed + net * delta when net is not 0; otherwise speed * 0.992 ^ (60 * delta),
\* and 0 when that is below 0.005 in magnitude
ReferenceSpeed(accelerate, brake, speed, delta) ==
  LET net == ReferenceNet(accelerate, brake, speed)
      decayed == TruncDiv(speed * FrictionFactor(delta), 1000000)
  IN  IF net # 0 THEN speed + TruncDiv(net * delta, TicksPerSecond)
      ELSE IF Abs(decayed) < 5 THEN 0 ELSE decayed

\* C20: in updateCar of Game.tsx the speed before the clamp is the reference's, and
\* the stored speed is its clamp.  Brake alone takes 2.4 per second (0.04 per tick of
\* 1/60 s) off a speed above 0.05 and 0.6 per second (0.01 per tick) off any other;
\* accelerate and brake together at a speed of 0.05 or less do what no input does
C20_SpeedFollowsReference ==
  [][UpdateStep =>
       LET accelerate == Held(keysRef, "ArrowUp", "KeyW")
           brake == Held(keysRef, "ArrowDown", "KeyS")
           speed == gameRunningRef.speed
           delta == frameDelta'
           before == Longitudinal(keysRef, speed, delta)
       IN  /\ before = ReferenceSpeed(accelerate, brake, speed, delta)
           /\ gameRunningRef'.speed = ClampSpeed(before)
           /\ (brake /\ ~accelerate /\ speed > 50) => before = speed - 40 * delta
           /\ (brake /\ ~accelerate /\ speed <= 50) => before = speed - 10 * delta
           /\ (brake /\ accelerate /\ speed <= 50) =>
                before = Longitudinal(keysRef \ {"ArrowUp", "KeyW", "ArrowDown", "KeyS"},
                                      speed, delta)]_vars

\* a frame of 1/60 s with accelerate and brake both held has taken the speed from
\* 0.05 to 0.049, by friction alone
C20_Witness ==
  /\ pc = "collide"
  /\ frames = 1
  /\ frameDelta = 1
  /\ {"ArrowUp", "ArrowDown"} \subseteq keysRef
  /\ gameRunningRef.speed = 49

\* 1 when the input is held, 0 when it is not
Input(keys, a, b) == IF Held(keys, a, b) THEN 1 ELSE 0

\* C21: when the speed updateCar steers by (its local speed after the acceleration /
\* friction step) is above 0.01 in magnitude, the frame changes the heading by
\* 0.04 * sign(speed) * (left - right): left turns one way forward and the other way
\* in reverse, right the opposite, both together cancel; the frame delta plays no
\* part other than through that speed
C21_SteeringStep ==
  [][UpdateStep =>
       LET sp == Longitudinal(keysRef, gameRunningRef.speed, frameDelta')
           turn == Input(keysRef, "ArrowLeft", "KeyA") - Input(keysRef, "ArrowRight", "KeyD")
       IN  Abs(sp) > 10 =>
             /\ gameRunningRef'.rotation =
                  gameRunningRef.rotation + (IF sp > 0 THEN 40 ELSE -40) * turn
             /\ car'.rotY = gameRunningRef'.rotation]_vars

\* the first frame of a car reversing with brake and steer-right held has turned the
\* heading up by 0.04, the way steer-left turns it when driving forward
C21_Witness ==
  /\ pc = "collide"
  /\ frames = 1
  /\ keysRef = {"ArrowDown", "ArrowRight"}
  /\ gameRunningRef.speed < -10
  /\ gameRunningRef.rotation \in {40, 440}

\* C22: updateCar is never passed more than 0.1 s, however long ago the previous
\* frame was, and one updateCar call changes the speed by at most 0.24
C22_FrameTimeCapped ==
  [][UpdateStep =>
       /\ frameDelta' <= 6
       /\ Abs(gameRunningRef'.speed - gameRunningRef.speed) <= 240]_vars

\* a frame at the cap of 0.1 s with the brake held has taken the full 0.24 off the
\* top speed
C22_Witness ==
  /\ pc = "collide"
  /\ frames = 1
  /\ frameDelta = 6
  /\ Held(keysRef, "ArrowDown", "KeyS") /\ ~Held(keysRef, "ArrowUp", "KeyW")
  /\ gameRunningRef.speed = CAR_MAX_SPEED - 240

\* C23: in part_000, once a collision has ended the session, every step is either a
\* frame that runs no updateCar and no checkCollisions and leaves the car's position
\* and heading, the speed, the flags, the scores and the stored high score as they
\* were (so gameOver has not run again), or the startGame that puts the session
\* back to running from the origin
C23_OverUntilRestart ==
  [][SessionOver =>
       \/ /\ pc' = "idle"
          /\ UNCHANGED <<car, gameRunningRef, gameState, localStorage, lastCollision,
                         currentZone, frames>>
       \/ /\ Running'
          /\ StartedAtOrigin'
          /\ frames' = 0]_vars

\* a frame has been rendered after the collision that ended the session, with the
\* accelerate key still held, and the session is still over
C23_Witness ==
  /\ SessionOver
  /\ lastCollision.n = 1
  /\ netEvent.kind = "frame"
  /\ "ArrowUp" \in keysRef
  /\ gameRunningRef.speed # 0

\* C24: what updateMiniMap has just drawn has the size of the canvas it was drawn
\* on, in the normal and in the fullscreen mode, with the car's marker at the centre
\* of that canvas and the scale of the mode shown (0.1, and 0.05 in fullscreen)
C24_MiniMapCentred ==
  (pc = "collide" /\ miniMap # NoDrawing) =>
     /\ miniMap.size = miniMap.canvas
     /\ 2 * miniMap.marker = miniMap.canvas
     /\ miniMap.scale = IF hud.isMapFullscreen THEN 50 ELSE 100

\* C25: the camera mode updateCar reads is one of 'third', 'first' and 'top' and is
\* the one the HUD shows as selected, and the camera a frame has just used is the
\* selected one, also in the first frames after startGame
C25_CameraModeAgrees ==
  /\ cameraModeRef \in CameraModes
  /\ cameraModeRef = hud.cameraMode
  /\ pc = "collide" => cameraView = hud.cameraMode

\* C26: the session's score is 0 in every state, in both files; a stored high score
\* of 0 or more is never replaced by another value, through any number of sessions
\* and game-overs; and the stored value (0 when nothing is stored) never decreases
C26_ScoreStaysZero ==
  [][/\ gameRunningRef.score = 0 /\ gameRunningRef'.score = 0
     /\ gameState.score = 0 /\ gameState'.score = 0
     /\ (localStorage # <<>> /\ StoredHighScore >= 0) => localStorage' = localStorage
     /\ StoredHighScore' >= StoredHighScore]_vars

\* a session of part_000 has ended in a collision on a page that had loaded a stored
\* high score of 2, and a new session was started: 2 is still stored and shown
C26_Witness ==
  /\ initialItem = <<2>>
  /\ lastCollision.n = 1
  /\ Running
  /\ frames = 0
  /\ localStorage = <<2>>
  /\ gameState.highScore = 2

\* C27: through incoming connections, connectToPeer and the open, error and close
\* events of the connections, isConnected is true exactly when status is 'connected'
C27_ConnectedIffStatus ==
  multiplayer.isConnected <=> multiplayer.status = "connected"

\* C28: on a host with several peers the status follows whether any connection is
\* open: while one is, isConnected is true and the status is not 'idle', whichever
\* other connection has closed
C28_ConnectedWhileAnyOpen ==
  (\E c \in ConnIds : conns[c].state = "open") =>
     /\ multiplayer.isConnected
     /\ multiplayer.status # "idle"

\* C29: in every generated world a car on a road centreline (x or z a multiple of
\* 200, the spawn point at the origin among them) is inside the collision box of no
\* collidable building
C29_CentrelineClear ==
  (car.x % 200000 = 0 \/ car.z % 200000 = 0) => Hits(car.x, car.z) = {}

=============================================================================
